---- MODULE Spec2Model ----
(***************************************************************************)
(* GoLite storage engine: the LSM backend (memtable, channel WAL, SSTables,*)
(* block cache, leveling compactor), the paged B-tree backend and the      *)
(* lock-free Michael-Scott queue, modelled from the Go sources.            *)
(*                                                                         *)
(* Keys are the integers 1..NumKeys (string order is integer order, 0 is   *)
(* the empty string); a key is one byte long, a value one byte or two.     *)
(* The WAL and SSTable files are modelled a second time byte by byte,      *)
(* where the record formats and their length fields matter.                *)
(***************************************************************************)
EXTENDS Integers, Sequences, FiniteSets, TLC

\* ------------------------------------------------------------------------
\* Bounds of the model
\* ------------------------------------------------------------------------
NumKeys == 2
MaxOps == 4
MaxFiles == 10
MaxOpens == 1
WalChCap == 2

Keys == 1..NumKeys
Values == {"v1", "v2"}

\* ------------------------------------------------------------------------
\* Program constants and configuration
\* ------------------------------------------------------------------------
tombstone == "<TOMBSTONE>"
NoEntry == "<absent>"
NoWalEntry == [Op |-> 2, Key |-> 0, Value |-> ""]
MemTableSize == 4
CacheCapacity == 1
CompactThreshold == 4
OpInsert == 0
OpDelete == 1

VARIABLES
    \* LSM backend
    memTable,      \* MemTable.table of the active memtable: key -> value, tombstone or NoEntry
    memSize,       \* MemTable.size
    walCh,         \* WAL.walCh, the buffered channel
    walHeld,       \* the entry the WAL worker has received and not yet written
    walFile,       \* the records of db.wal
    entryCount,    \* WAL.entryCount
    levels,        \* LSMTree.levels
    files,         \* the .sst files of the data directory, in file name order
    cache,         \* the LRU block cache, most recently used first
    pc,            \* position of the caller thread inside the LSM operation
    pend,          \* the operation the caller is in the middle of
    closed,        \* Close has returned and the store is not reopened
    last,          \* per key: the last acknowledged mutation
    nOps,          \* number of Insert/Delete calls so far
    opens,         \* number of reopens so far
    sinceOpen      \* mutations since the last open

lsmVars == <<memTable, memSize, walCh, walHeld, walFile, entryCount, levels,
             files, cache, pc, pend, closed, last, nOps, opens, sinceOpen>>

\* ------------------------------------------------------------------------
\* Helpers
\* ------------------------------------------------------------------------
LongValue == "vv"

\* len(key), len(value): keys are one byte, LongValue is two bytes, every
\* other value one byte
KeyLen(k) == 1
ValLen(v) == IF v = LongValue THEN 2 ELSE 1

NoPend == [op |-> "none", key |-> 0, value |-> ""]

\* ------------------------------------------------------------------------
\* MemTable
\* ------------------------------------------------------------------------
EmptyTable == [k \in Keys |-> NoEntry]

\* the size test of MemTable.Insert with a test that leaves the new bytes out
InsertFitsCurrentOnly(size, maxSize, k, v) == ~(size > maxSize)

\* the size test of MemTable.Insert: currentSize+addSize > m.maxSize is full
InsertFits(size, maxSize, k, v) == ~(size + KeyLen(k) + ValLen(v) > maxSize)

\* MemTable.Insert: fails with ErrMemTableFull when the size would pass maxSize
MemInsertOk(size, k, v) == InsertFits(size, MemTableSize, k, v)

MemInsertTable(mt, k, v) == [mt EXCEPT ![k] = v]

\* MemTable.Get: a missing key and a tombstone both give ("", false)
MemGet(mt, k) ==
    IF mt[k] = NoEntry THEN [value |-> "", ok |-> FALSE]
    ELSE IF mt[k] = tombstone THEN [value |-> "", ok |-> FALSE]
    ELSE [value |-> mt[k], ok |-> TRUE]

\* MemTable.Delete
MemDelete(mt, k) == [mt EXCEPT ![k] = tombstone]

\* a snapshot that hands the tombstones out as values
SwapDataWithTombstones(mt) == mt

\* MemTable.Swap: the snapshot leaves the tombstones out
SwapData(mt) == [k \in Keys |-> IF mt[k] # tombstone THEN mt[k] ELSE NoEntry]

\* ------------------------------------------------------------------------
\* SSTable
\* ------------------------------------------------------------------------
RECURSIVE SortedRecords(_, _)
\* the records CreateSSTable writes: the keys of data from key k on, ascending
SortedRecords(data, k) ==
    IF k > NumKeys THEN <<>>
    ELSE IF data[k] # NoEntry THEN <<<<k, data[k]>>>> \o SortedRecords(data, k + 1)
    ELSE SortedRecords(data, k + 1)

RECURSIVE IndexOf(_, _, _)
\* the offset index after scanning the first n records: a later record of a key wins
IndexOf(recs, n, k) ==
    IF n = 0 THEN 0
    ELSE IF recs[n][1] = k THEN n
    ELSE IndexOf(recs, n - 1, k)

\* OpenSSTable: minKey is the first record's key, maxKey the last record's key
OpenSSTable(fileId, recs) ==
    [file |-> fileId,
     minKey |-> IF Len(recs) = 0 THEN 0 ELSE recs[1][1],
     maxKey |-> IF Len(recs) = 0 THEN 0 ELSE recs[Len(recs)][1],
     index |-> [k \in Keys |-> IndexOf(recs, Len(recs), k)]]

\* CreateSSTable: the table built while the records are written
CreateSSTable(fileId, data) == OpenSSTable(fileId, SortedRecords(data, 1))

\* SSTable.Get: look the key up in the index, read the value at that offset
SSTableGet(sst, fs, k) ==
    IF sst.index[k] = 0 THEN [value |-> "", ok |-> FALSE]
    ELSE [value |-> fs[sst.file][sst.index[k]][2], ok |-> TRUE]

RECURSIVE InsertionSort(_, _)
\* sort.Slice by minKey on a short slice (insertion sort, equal keys keep their order)
InsertionSort(level, n) ==
    IF n = 0 THEN <<>>
    ELSE LET s == InsertionSort(level, n - 1)
             x == level[n]
             lo == SelectSeq(s, LAMBDA t : t.minKey <= x.minKey)
             hi == SelectSeq(s, LAMBDA t : t.minKey > x.minKey)
         IN lo \o <<x>> \o hi

SortByMinKey(level) == InsertionSort(level, Len(level))

RECURSIVE SortSearch(_, _, _, _)
\* sort.Search(len(level), level[i].maxKey >= key), i and j as in the Go loop
SortSearch(level, key, i, j) ==
    IF i >= j THEN i
    ELSE LET h == (i + j) \div 2
         IN IF ~(level[h + 1].maxKey >= key)
            THEN SortSearch(level, key, h + 1, j)
            ELSE SortSearch(level, key, i, h)

\* ------------------------------------------------------------------------
\* Block cache
\* ------------------------------------------------------------------------
CacheHas(c, k) == \E i \in 1..Len(c) : c[i].key = k
CachePos(c, k) == CHOOSE i \in 1..Len(c) : c[i].key = k
CacheRemove(c, i) == SubSeq(c, 1, i - 1) \o SubSeq(c, i + 1, Len(c))

\* Cache.Get: a hit moves the entry to the front
CacheGet(c, k) ==
    IF CacheHas(c, k)
    THEN [value |-> c[CachePos(c, k)].value, ok |-> TRUE,
          cache |-> <<c[CachePos(c, k)]>> \o CacheRemove(c, CachePos(c, k))]
    ELSE [value |-> "", ok |-> FALSE, cache |-> c]

\* Cache.Put: update in place or push to the front and evict the back
CachePut(c, k, v) ==
    IF CacheHas(c, k)
    THEN <<[key |-> k, value |-> v]>> \o CacheRemove(c, CachePos(c, k))
    ELSE LET pushed == <<[key |-> k, value |-> v]>> \o c
         IN IF Len(pushed) > CacheCapacity
            THEN SubSeq(pushed, 1, Len(pushed) - 1)
            ELSE pushed

\* ------------------------------------------------------------------------
\* LSMTree.Get
\* ------------------------------------------------------------------------
RECURSIVE SearchLevels(_, _, _, _)
\* the loop over the levels: the first level whose candidate table holds the key
SearchLevels(lv, fs, k, n) ==
    IF n > Len(lv) THEN [value |-> "", ok |-> FALSE]
    ELSE LET level == lv[n]
             idx == SortSearch(level, k, 0, Len(level))
         IN IF idx < Len(level) /\ level[idx + 1].minKey <= k
               /\ SSTableGet(level[idx + 1], fs, k).ok
            THEN SSTableGet(level[idx + 1], fs, k)
            ELSE SearchLevels(lv, fs, k, n + 1)

\* the result of LSMTree.Get(k) and the block cache it leaves
GetOn(mt, c, lv, fs, k) ==
    IF MemGet(mt, k).ok
    THEN [value |-> MemGet(mt, k).value, ok |-> TRUE, cache |-> c]
    ELSE IF CacheGet(c, k).ok
    THEN CacheGet(c, k)
    ELSE LET r == SearchLevels(lv, fs, k, 1)
         IN IF r.ok
            THEN [value |-> r.value, ok |-> TRUE, cache |-> CachePut(c, k, r.value)]
            ELSE [value |-> "", ok |-> FALSE, cache |-> c]

Get(k) == GetOn(memTable, cache, levels, files, k)

\* ------------------------------------------------------------------------
\* Flush, compaction, recovery
\* ------------------------------------------------------------------------
\* flushMemTable under l.mu: swap the memtable, build the SSTable, append it to
\* level 0 and sort level 0 by minKey
FlushedFiles(mt, fs) == Append(fs, SortedRecords(SwapData(mt), 1))

FlushedLevels(mt, lv, fs) ==
    [lv EXCEPT ![1] = SortByMinKey(Append(lv[1], CreateSSTable(Len(fs) + 1, SwapData(mt))))]

RECURSIVE MergedRecords(_, _, _)
\* mergeSSTables: the bodies of the input files, one after the other
MergedRecords(ssts, fs, n) ==
    IF n > Len(ssts) THEN <<>>
    ELSE fs[ssts[n].file] \o MergedRecords(ssts, fs, n + 1)

CompactDue(lv) == Len(lv[1]) >= CompactThreshold

CompactedFiles(lv, fs) == Append(fs, MergedRecords(lv[1], fs, 1))

\* Compactor.Compact past the threshold test: level 0 is emptied, the merged
\* table is appended to level 1 and level 1 is sorted by minKey
CompactedLevels(lv, fs) ==
    LET merged == OpenSSTable(Len(fs) + 1, MergedRecords(lv[1], fs, 1))
    IN IF Len(lv) < 2
       THEN <<<<>>, <<merged>>>>
       ELSE [lv EXCEPT ![1] = <<>>, ![2] = SortByMinKey(Append(lv[2], merged))]

RECURSIVE LoadSSTables(_, _)
\* loadSSTables: every .sst file of the directory, in file name order
LoadSSTables(fs, n) ==
    IF n = 0 THEN <<>>
    ELSE Append(LoadSSTables(fs, n - 1), OpenSSTable(n, fs[n]))

RECURSIVE RecoverFromWAL(_, _)
\* RecoverFromWAL: replay the first n records onto a fresh memtable; the result
\* of MemTable.Insert is ignored
RecoverFromWAL(wf, n) ==
    IF n = 0 THEN [table |-> EmptyTable, size |-> 0]
    ELSE LET m == RecoverFromWAL(wf, n - 1)
             e == wf[n]
         IN IF e.Op = OpInsert
            THEN IF MemInsertOk(m.size, e.Key, e.Value)
                 THEN [table |-> MemInsertTable(m.table, e.Key, e.Value),
                       size |-> m.size + KeyLen(e.Key) + ValLen(e.Value)]
                 ELSE m
            ELSE [table |-> MemDelete(m.table, e.Key), size |-> m.size]

\* ------------------------------------------------------------------------
\* Initial state: NewLSMTree on an empty directory
\* ------------------------------------------------------------------------
LsmInit ==
    /\ memTable = EmptyTable
    /\ memSize = 0
    /\ walCh = <<>>
    /\ walHeld = NoWalEntry
    /\ walFile = <<>>
    /\ entryCount = 0
    /\ levels = <<<<>>>>
    /\ files = <<>>
    /\ cache = <<>>
    /\ pc = "idle"
    /\ pend = NoPend
    /\ closed = FALSE
    /\ last = [k \in Keys |-> "none"]
    /\ nOps = 0
    /\ opens = 0
    /\ sinceOpen = 0

\* A store that has been through one compaction: Insert(k, "v1") followed by
\* ForceCompaction four times, for k = a, b, a, b. The fourth flush brings
\* level 0 to the threshold and Compact merges it into level 1. The WAL has been
\* drained and reset by the last flush.
LsmInitCompacted ==
    \E a, b \in Keys :
        LET d1 == [EmptyTable EXCEPT ![a] = "v1"]
            d2 == [EmptyTable EXCEPT ![b] = "v1"]
            f1 == FlushedFiles(d1, <<>>)
            l1 == FlushedLevels(d1, <<<<>>>>, <<>>)
            f2 == FlushedFiles(d2, f1)
            l2 == FlushedLevels(d2, l1, f1)
            f3 == FlushedFiles(d1, f2)
            l3 == FlushedLevels(d1, l2, f2)
            f4 == FlushedFiles(d2, f3)
            l4 == FlushedLevels(d2, l3, f3)
        IN /\ files = CompactedFiles(l4, f4)
           /\ levels = CompactedLevels(l4, f4)
           /\ last = [k \in Keys |-> IF k \in {a, b} THEN "v1" ELSE "none"]
    /\ memTable = EmptyTable
    /\ memSize = 0
    /\ walCh = <<>>
    /\ walHeld = NoWalEntry
    /\ walFile = <<>>
    /\ entryCount = 0
    /\ cache = <<>>
    /\ pc = "idle"
    /\ pend = NoPend
    /\ closed = FALSE
    /\ nOps = 0
    /\ opens = 0
    /\ sinceOpen = 4

\* ------------------------------------------------------------------------
\* LSM operations of the caller thread
\* ------------------------------------------------------------------------
Running == ~closed /\ pc = "idle"

\* LSMTree.Insert up to its return or up to the point where flushMemTable
\* waits for the WAL. On a closed store WAL.Append counts the entry and then
\* sends on the closed channel, which panics.
LsmInsert(k, v) ==
    /\ pc = "idle"
    /\ nOps < MaxOps
    /\ entryCount' = entryCount + 1
    /\ nOps' = nOps + 1
    /\ IF closed
       THEN /\ pc' = "panic"
            /\ UNCHANGED <<memTable, memSize, walCh, last, sinceOpen, levels, files, pend>>
       ELSE /\ Len(walCh) < WalChCap
            /\ MemInsertOk(memSize, k, v) \/ memSize = 0 \/ Len(files) < MaxFiles
            /\ walCh' = Append(walCh, [Op |-> OpInsert, Key |-> k, Value |-> v])
            /\ IF MemInsertOk(memSize, k, v)
               THEN /\ memTable' = MemInsertTable(memTable, k, v)
                    /\ memSize' = memSize + KeyLen(k) + ValLen(v)
                    /\ last' = [last EXCEPT ![k] = v]
                    /\ sinceOpen' = sinceOpen + 1
                    /\ UNCHANGED <<levels, files, pc, pend>>
               ELSE IF memSize = 0
               THEN UNCHANGED <<memTable, memSize, last, sinceOpen, levels, files, pc, pend>>
               ELSE /\ memTable' = EmptyTable
                    /\ memSize' = 0
                    /\ files' = FlushedFiles(memTable, files)
                    /\ levels' = FlushedLevels(memTable, levels, files)
                    /\ pc' = "wal_flush"
                    /\ pend' = [op |-> "insert", key |-> k, value |-> v]
                    /\ UNCHANGED <<last, sinceOpen>>
    /\ UNCHANGED <<walHeld, walFile, cache, closed, opens>>

\* LSMTree.Delete; on a closed store the send in WAL.Append panics
LsmDelete(k) ==
    /\ pc = "idle"
    /\ nOps < MaxOps
    /\ entryCount' = entryCount + 1
    /\ nOps' = nOps + 1
    /\ IF closed
       THEN /\ pc' = "panic"
            /\ UNCHANGED <<memTable, walCh, last, sinceOpen>>
       ELSE /\ Len(walCh) < WalChCap
            /\ walCh' = Append(walCh, [Op |-> OpDelete, Key |-> k, Value |-> ""])
            /\ memTable' = MemDelete(memTable, k)
            /\ last' = [last EXCEPT ![k] = "deleted"]
            /\ sinceOpen' = sinceOpen + 1
            /\ UNCHANGED pc
    /\ UNCHANGED <<memSize, walHeld, walFile, levels, files, cache, pend,
                   closed, opens>>

\* LSMTree.Get
LsmGet(k) ==
    /\ Running
    /\ cache' = Get(k).cache
    /\ UNCHANGED <<memTable, memSize, walCh, walHeld, walFile, entryCount, levels,
                   files, pc, pend, closed, last, nOps, opens, sinceOpen>>

\* LSMTree.ForceCompaction: flush a non-empty memtable, then Compact
ForceCompaction ==
    /\ Running
    /\ Len(files) + 2 <= MaxFiles
    /\ IF memSize > 0
       THEN /\ memTable' = EmptyTable
            /\ memSize' = 0
            /\ files' = FlushedFiles(memTable, files)
            /\ levels' = FlushedLevels(memTable, levels, files)
            /\ pc' = "wal_flush"
            /\ pend' = [op |-> "force", key |-> 0, value |-> ""]
       ELSE /\ CompactDue(levels)
            /\ files' = CompactedFiles(levels, files)
            /\ levels' = CompactedLevels(levels, files)
            /\ UNCHANGED <<memTable, memSize, pc, pend>>
    /\ UNCHANGED <<walCh, walHeld, walFile, entryCount, cache, closed, last,
                   nOps, opens, sinceOpen>>

\* WAL.Flush returns: the channel was seen empty
WalFlush ==
    /\ pc = "wal_flush"
    /\ Len(walCh) = 0
    /\ pc' = "wal_reset"
    /\ UNCHANGED <<memTable, memSize, walCh, walHeld, walFile, entryCount, levels,
                   files, cache, pend, closed, last, nOps, opens, sinceOpen>>

\* WAL.Reset, then the rest of the operation that asked for the flush
WalReset ==
    /\ pc = "wal_reset"
    /\ walFile' = <<>>
    /\ entryCount' = 0
    /\ pend' = NoPend
    /\ IF pend.op = "insert"
       THEN /\ IF MemInsertOk(memSize, pend.key, pend.value)
               THEN /\ memTable' = MemInsertTable(memTable, pend.key, pend.value)
                    /\ memSize' = memSize + KeyLen(pend.key) + ValLen(pend.value)
                    /\ last' = [last EXCEPT ![pend.key] = pend.value]
                    /\ sinceOpen' = sinceOpen + 1
               ELSE UNCHANGED <<memTable, memSize, last, sinceOpen>>
            /\ pc' = "idle"
            /\ UNCHANGED <<levels, files>>
       ELSE IF pend.op = "force"
       THEN /\ IF CompactDue(levels)
               THEN /\ files' = CompactedFiles(levels, files)
                    /\ levels' = CompactedLevels(levels, files)
               ELSE UNCHANGED <<levels, files>>
            /\ pc' = "idle"
            /\ UNCHANGED <<memTable, memSize, last, sinceOpen>>
       ELSE /\ pc' = "wal_close"
            /\ UNCHANGED <<memTable, memSize, last, sinceOpen, levels, files>>
    /\ UNCHANGED <<walCh, walHeld, cache, closed, nOps, opens>>

\* LSMTree.Close: stop the compactor, flush the memtable, close the WAL
LsmClose ==
    /\ Running
    /\ opens < MaxOpens
    /\ memSize = 0 \/ Len(files) < MaxFiles
    /\ IF memSize = 0
       THEN /\ pc' = "wal_close"
            /\ UNCHANGED <<memTable, memSize, levels, files, pend>>
       ELSE /\ memTable' = EmptyTable
            /\ memSize' = 0
            /\ files' = FlushedFiles(memTable, files)
            /\ levels' = FlushedLevels(memTable, levels, files)
            /\ pc' = "wal_flush"
            /\ pend' = [op |-> "close", key |-> 0, value |-> ""]
    /\ UNCHANGED <<walCh, walHeld, walFile, entryCount, cache, closed, last,
                   nOps, opens, sinceOpen>>

\* WAL.Close returns once the worker has drained the closed channel
WalClose ==
    /\ pc = "wal_close"
    /\ Len(walCh) = 0
    /\ walHeld = NoWalEntry
    /\ closed' = TRUE
    /\ pc' = "idle"
    /\ UNCHANGED <<memTable, memSize, walCh, walHeld, walFile, entryCount, levels,
                   files, cache, pend, last, nOps, opens, sinceOpen>>

\* NewLSMTree on the directory of a closed store, by the same process or, after
\* a panic, by a new one
Reopen ==
    /\ closed
    /\ closed' = FALSE
    /\ pc' = "idle"
    /\ opens' = opens + 1
    /\ sinceOpen' = 0
    /\ levels' = <<SortByMinKey(LoadSSTables(files, Len(files)))>>
    /\ memTable' = RecoverFromWAL(walFile, Len(walFile)).table
    /\ memSize' = RecoverFromWAL(walFile, Len(walFile)).size
    /\ cache' = <<>>
    /\ entryCount' = 0
    /\ UNCHANGED <<walCh, walHeld, walFile, files, pend, last, nOps>>

\* ------------------------------------------------------------------------
\* Background goroutines
\* ------------------------------------------------------------------------
\* WAL.worker receives the next entry from the channel
WalWorkerReceive ==
    /\ Len(walCh) > 0
    /\ walHeld = NoWalEntry
    /\ walHeld' = Head(walCh)
    /\ walCh' = Tail(walCh)
    /\ UNCHANGED <<memTable, memSize, walFile, entryCount, levels, files, cache,
                   pc, pend, closed, last, nOps, opens, sinceOpen>>

\* WAL.worker writes the entry it holds to the file
WalWorkerWrite ==
    /\ walHeld # NoWalEntry
    /\ walFile' = Append(walFile, walHeld)
    /\ walHeld' = NoWalEntry
    /\ UNCHANGED <<memTable, memSize, walCh, entryCount, levels, files, cache,
                   pc, pend, closed, last, nOps, opens, sinceOpen>>

\* Compactor.Run: the ticker fires while the stop channel is open
CompactTick ==
    /\ ~closed
    /\ pc # "wal_close"
    /\ pend.op # "close"
    /\ CompactDue(levels)
    /\ Len(files) < MaxFiles
    /\ files' = CompactedFiles(levels, files)
    /\ levels' = CompactedLevels(levels, files)
    /\ UNCHANGED <<memTable, memSize, walCh, walHeld, walFile, entryCount, cache,
                   pc, pend, closed, last, nOps, opens, sinceOpen>>

\* ========================================================================
\* Paged B-tree backend (CacheSize = 0: every readNode decodes the page anew)
\* Offsets are page numbers: page 0 is the header, nodes start at page 1.
\* ========================================================================
BtNumKeys == 4
MaxBtOps == 6
\* the smallest degree of a B-tree and the degrees the trees are built with
MinDegree == 2
MaxDegree == 3
Degrees == MinDegree..MaxDegree
PageSize == 64
BigLen == 60

BigValue == "big"

BtKeys == 1..BtNumKeys
\* the keys of an ascending fill of a tree of the largest degree
AscKeys == 1..(2 * MaxDegree)

VARIABLES
    Degree,        \* Btree.Degree
    btDisk,        \* the node pages of the file: page number -> [items, children]
    btHeader,      \* page 0: [root, length]
    RootOffset,    \* Btree.RootOffset
    Length,        \* Btree.Length
    nextOffset,    \* Btree.nextOffset
    btCrashed,     \* the process has panicked and no instance is open
    btOps,         \* number of Insert and Delete calls so far
    btLast,        \* per key: the last mutation that returned ok
    btDup,         \* some Insert found its key already stored
    btRes          \* the last Insert or Delete: what it was given and what it returned

btVars == <<Degree, btDisk, btHeader, RootOffset, Length, nextOffset, btCrashed, btOps, btLast,
            btDup, btRes>>

Min(S) == CHOOSE x \in S : \A y \in S : x <= y
Max(S) == CHOOSE x \in S : \A y \in S : x >= y

\* seq with x inserted so that it stands at 0-based index i
InsertAt(seq, i, x) == SubSeq(seq, 1, i) \o <<x>> \o SubSeq(seq, i + 1, Len(seq))
\* seq without the element at 0-based index i
RemoveAt(seq, i) == SubSeq(seq, 1, i) \o SubSeq(seq, i + 2, Len(seq))

isLeaf(n) == Len(n.children) = 0

\* a node taken for full one item late
IsFullLate(n) == Len(n.items) = 2 * Degree
\* len(items) == 2*b.Degree-1: the node is full and is split before the descent
IsFull(n) == Len(n.items) = 2 * Degree - 1

\* readNodeFromDisk: the node decoded from its page
readNode(d, off) == [items |-> d[off].items, children |-> d[off].children, offset |-> off]

\* writeNodeToDisk past the size test: the node serialized to the page at its offset
writeNode(d, n) == (n.offset :> [items |-> n.items, children |-> n.children]) @@ d

\* byte lengths: keys are one byte, the values "v1" and "v2" two bytes, BigValue
\* is a value that is longer than a page can hold
\* a key of 65536 bytes 'a', the greatest key, and the empty key, the least
LongBtKey == 9
LongKeyLen == 65536
EmptyKey == 0
\* the 24929 bytes 'a' that a page decodes as the value of an item whose key
\* length field wrapped: 24929 is the length field read from two bytes 'a'
KeyBytesValue == "aaa"
KeyBytesLen == 24929

BtKeyLen(k) == IF k = LongBtKey THEN LongKeyLen ELSE IF k = EmptyKey THEN 0 ELSE 1
BtValLen(v) == IF v = BigValue THEN BigLen ELSE IF v = KeyBytesValue THEN KeyBytesLen ELSE 2

RECURSIVE ItemsBytes(_, _)
\* the bytes of the first n items: two length prefixes of 2 bytes, key and value
ItemsBytes(items, n) ==
    IF n = 0 THEN 0
    ELSE ItemsBytes(items, n - 1) + 2 + BtKeyLen(items[n].Key) + 2 + BtValLen(items[n].Value)

\* writeNodeToDisk: len(data) = two uint32 counts, the items, 8 bytes per child
NodeBytes(n) == 4 + 4 + ItemsBytes(n.items, Len(n.items)) + 8 * Len(n.children)

RECURSIVE writeNodes(_, _, _)
\* Btree.writeNode on nodes[i], nodes[i+1], ... in turn, each call followed by
\* `if err != nil { return err }`: a node whose bytes exceed the page size is
\* not written and ends the sequence
writeNodes(d, nodes, i) ==
    IF i > Len(nodes) THEN [disk |-> d, err |-> "ok"]
    ELSE IF NodeBytes(nodes[i]) > PageSize THEN [disk |-> d, err |-> "overflow"]
    ELSE writeNodes(writeNode(d, nodes[i]), nodes, i + 1)

\* the forward scans: for idx < len(items) && key > items[idx].Key { idx++ }
ScanUp(items, key) ==
    LET S == {i \in 0..(Len(items) - 1) : ~(key > items[i + 1].Key)}
    IN IF S = {} THEN Len(items) ELSE Min(S)

\* the backward scans: i = len-1; for i >= 0 && key < items[i].Key { i-- }; i+1
ScanDown(items, key) ==
    LET S == {i \in 0..(Len(items) - 1) : ~(key < items[i + 1].Key)}
    IN IF S = {} THEN 0 ELSE Max(S) + 1

\* splitChild: child is full; z takes its upper half and the median moves up
splitChild(d, nx, parent, index, child) ==
    LET t == Degree
        median == child.items[t]
        z == [items |-> SubSeq(child.items, t + 1, Len(child.items)),
              children |-> IF ~isLeaf(child)
                           THEN SubSeq(child.children, t + 1, Len(child.children))
                           ELSE <<>>,
              offset |-> nx]
        c2 == [child EXCEPT !.items = SubSeq(child.items, 1, t - 1),
                            !.children = IF ~isLeaf(child)
                                         THEN SubSeq(child.children, 1, t)
                                         ELSE child.children]
        p2 == [parent EXCEPT !.children = InsertAt(parent.children, index + 1, nx),
                             !.items = InsertAt(parent.items, index, median)]
        w == writeNodes(d, <<c2, z, p2>>, 1)
    IN [disk |-> w.disk, next |-> nx + 1, node |-> p2, err |-> w.err]

RECURSIVE insertNonFull(_, _, _, _, _)
\* insertNonFull: the disk, the allocation counter and the node n as the call leaves them
insertNonFull(d, nx, n, key, value) ==
    IF isLeaf(n)
    THEN LET n2 == [n EXCEPT !.items = InsertAt(n.items, ScanDown(n.items, key),
                                                [Key |-> key, Value |-> value])]
             w == writeNodes(d, <<n2>>, 1)
         IN [disk |-> w.disk, next |-> nx, node |-> n2, err |-> w.err]
    ELSE LET i == ScanDown(n.items, key)
             child == readNode(d, n.children[i + 1])
         IN IF IsFull(child)
            THEN LET sp == splitChild(d, nx, n, i, child)
                     i2 == IF key > sp.node.items[i + 1].Key THEN i + 1 ELSE i
                     child2 == readNode(sp.disk, sp.node.children[i2 + 1])
                     r == insertNonFull(sp.disk, sp.next, child2, key, value)
                 IN IF sp.err # "ok" THEN sp
                    ELSE [disk |-> r.disk, next |-> r.next, node |-> sp.node, err |-> r.err]
            ELSE LET r == insertNonFull(d, nx, child, key, value)
                 IN [disk |-> r.disk, next |-> r.next, node |-> n, err |-> r.err]

\* saveHeader with a header write that leaves the stored length as it was
saveHeaderKeepsLength(hdr, root, len) == [root |-> root, length |-> hdr.length]

\* saveHeader: the root offset and the length (as int32; at most MaxBtOps here)
\* written to page 0
saveHeader(hdr, root, len) == [root |-> root, length |-> len]

\* Btree.Insert: disk, header and fields after the call
BtInsertResult(d, hdr, root, len, nx, key, value) ==
    IF len = 0
    THEN LET newNode == [items |-> <<[Key |-> key, Value |-> value]>>,
                         children |-> <<>>, offset |-> nx]
             w == writeNodes(d, <<newNode>>, 1)
         IN IF w.err # "ok"
            THEN [disk |-> d, root |-> root, length |-> len, next |-> nx + 1,
                  header |-> hdr, err |-> w.err]
            ELSE [disk |-> w.disk, root |-> nx, length |-> len + 1,
                  next |-> nx + 1, header |-> saveHeader(hdr, nx, len + 1),
                  err |-> "ok"]
    ELSE LET rootNode == readNode(d, root)
         IN IF IsFull(rootNode)
            THEN LET newRoot == [items |-> <<>>, children |-> <<root>>, offset |-> nx]
                     sp == splitChild(d, nx + 1, newRoot, 0, rootNode)
                     r == insertNonFull(sp.disk, sp.next, sp.node, key, value)
                     w == writeNodes(r.disk, <<r.node>>, 1)
                 IN IF sp.err # "ok"
                    THEN [disk |-> sp.disk, root |-> root, length |-> len,
                          next |-> sp.next, header |-> hdr, err |-> sp.err]
                    ELSE IF r.err # "ok"
                    THEN [disk |-> r.disk, root |-> root, length |-> len,
                          next |-> r.next, header |-> hdr, err |-> r.err]
                    ELSE IF w.err # "ok"
                    THEN [disk |-> w.disk, root |-> root, length |-> len,
                          next |-> r.next, header |-> hdr, err |-> w.err]
                    ELSE [disk |-> w.disk, root |-> nx, length |-> len + 1,
                          next |-> r.next, header |-> saveHeader(hdr, nx, len + 1),
                          err |-> "ok"]
            ELSE LET r == insertNonFull(d, nx, rootNode, key, value)
                 IN IF r.err # "ok"
                    THEN [disk |-> r.disk, root |-> root, length |-> len,
                          next |-> r.next, header |-> hdr, err |-> r.err]
                    ELSE [disk |-> r.disk, root |-> root, length |-> len + 1,
                          next |-> r.next, header |-> saveHeader(hdr, root, len + 1),
                          err |-> "ok"]

\* ports.ErrKeyNotFound, the error value of the storage port
ErrKeyNotFound == "notfound"

\* fmt.Errorf("key not found"): a new error value with the same text, which is
\* not ports.ErrKeyNotFound
ErrorfKeyNotFound == "errorf: key not found"

RECURSIVE searchValue(_, _, _)
\* searchValue: the first item found on the way down with the key
searchValue(d, off, key) ==
    LET n == readNode(d, off)
        i == ScanUp(n.items, key)
    IN IF i < Len(n.items) /\ key = n.items[i + 1].Key
       THEN [value |-> n.items[i + 1].Value, err |-> "ok"]
       ELSE IF isLeaf(n) THEN [value |-> "", err |-> ErrorfKeyNotFound]
       ELSE IF i >= Len(n.children) THEN [value |-> "", err |-> "panic"]
       ELSE searchValue(d, n.children[i + 1], key)

\* Btree.Get
BtGetOn(d, root, len, key) ==
    IF len = 0 THEN [value |-> "", err |-> ErrKeyNotFound]
    ELSE searchValue(d, root, key)

BtGet(key) == BtGetOn(btDisk, RootOffset, Length, key)

RECURSIVE getPredecessor(_, _)
\* getPredecessor: the last item of the rightmost leaf below n
getPredecessor(d, n) ==
    IF ~isLeaf(n) THEN getPredecessor(d, readNode(d, n.children[Len(n.children)]))
    ELSE IF Len(n.items) = 0 THEN [item |-> [Key |-> 0, Value |-> ""], err |-> "panic"]
    ELSE [item |-> n.items[Len(n.items)], err |-> "ok"]

RECURSIVE getSuccessor(_, _)
\* getSuccessor: the first item of the leftmost leaf below n
getSuccessor(d, n) ==
    IF ~isLeaf(n) THEN getSuccessor(d, readNode(d, n.children[1]))
    ELSE IF Len(n.items) = 0 THEN [item |-> [Key |-> 0, Value |-> ""], err |-> "panic"]
    ELSE [item |-> n.items[1], err |-> "ok"]

\* mergeNodes: child idx+1 and item idx of the parent are appended to child idx
mergeNodes(d, parent, idx) ==
    IF idx + 1 >= Len(parent.children) \/ idx >= Len(parent.items)
    THEN [disk |-> d, err |-> "panic"]
    ELSE LET left == readNode(d, parent.children[idx + 1])
             right == readNode(d, parent.children[idx + 2])
             left2 == [left EXCEPT
                          !.items = left.items \o <<parent.items[idx + 1]>> \o right.items,
                          !.children = IF ~isLeaf(left)
                                       THEN left.children \o right.children
                                       ELSE left.children]
             parent2 == [parent EXCEPT !.items = RemoveAt(parent.items, idx),
                                       !.children = RemoveAt(parent.children, idx + 1)]
         IN writeNodes(d, <<left2, parent2>>, 1)

\* borrowFromPrev: the parent's item idx-1 moves down to the front of child idx,
\* the left sibling's last item moves up
borrowFromPrev(d, parent, idx) ==
    LET child == readNode(d, parent.children[idx + 1])
        leftSibling == readNode(d, parent.children[idx])
    IN IF idx - 1 >= Len(parent.items) \/ Len(leftSibling.items) = 0
          \/ (~isLeaf(child) /\ Len(leftSibling.children) = 0)
       THEN [disk |-> d, err |-> "panic"]
       ELSE LET child2 == [child EXCEPT
                    !.items = <<parent.items[idx]>> \o child.items,
                    !.children = IF ~isLeaf(child)
                                 THEN <<leftSibling.children[Len(leftSibling.children)]>>
                                      \o child.children
                                 ELSE child.children]
                left2 == [leftSibling EXCEPT
                    !.items = SubSeq(leftSibling.items, 1, Len(leftSibling.items) - 1),
                    !.children = IF ~isLeaf(child)
                                 THEN SubSeq(leftSibling.children, 1,
                                             Len(leftSibling.children) - 1)
                                 ELSE leftSibling.children]
                parent2 == [parent EXCEPT
                    !.items[idx] = leftSibling.items[Len(leftSibling.items)]]
            IN writeNodes(d, <<child2, left2, parent2>>, 1)

\* borrowFromNext: the parent's item idx moves down to the end of child idx, the
\* right sibling's first item moves up
borrowFromNext(d, parent, idx) ==
    LET child == readNode(d, parent.children[idx + 1])
        rightSibling == readNode(d, parent.children[idx + 2])
    IN IF idx >= Len(parent.items) \/ Len(rightSibling.items) = 0
          \/ (~isLeaf(child) /\ Len(rightSibling.children) = 0)
       THEN [disk |-> d, err |-> "panic"]
       ELSE LET child2 == [child EXCEPT
                    !.items = child.items \o <<parent.items[idx + 1]>>,
                    !.children = IF ~isLeaf(child)
                                 THEN child.children \o <<rightSibling.children[1]>>
                                 ELSE child.children]
                right2 == [rightSibling EXCEPT
                    !.items = Tail(rightSibling.items),
                    !.children = IF ~isLeaf(child)
                                 THEN Tail(rightSibling.children)
                                 ELSE rightSibling.children]
                parent2 == [parent EXCEPT !.items[idx + 1] = rightSibling.items[1]]
            IN writeNodes(d, <<child2, right2, parent2>>, 1)

\* fill: borrow from the left sibling, else from the right one, else merge
fill(d, parent, idx) ==
    IF idx > 0 /\ Len(readNode(d, parent.children[idx]).items) >= Degree
    THEN borrowFromPrev(d, parent, idx)
    ELSE IF idx < Len(parent.children) - 1
            /\ Len(readNode(d, parent.children[idx + 2]).items) >= Degree
    THEN borrowFromNext(d, parent, idx)
    ELSE IF idx > 0 THEN mergeNodes(d, parent, idx - 1)
    ELSE mergeNodes(d, parent, idx)

\* the child deleteFromNode descends into after fill: childrenOffsets[idx] of the
\* parent as read again
ChildAfterFill(n2, idx) ==
    IF idx >= Len(n2.children) THEN [offset |-> 0, err |-> "panic"]
    ELSE [offset |-> n2.children[idx + 1], err |-> "ok"]

RECURSIVE deleteFromNode(_, _, _)
\* deleteFromNode: the disk as the call leaves it and what it returns
deleteFromNode(d, off, key) ==
    LET n == readNode(d, off)
        idx == ScanUp(n.items, key)
    IN IF idx < Len(n.items) /\ key = n.items[idx + 1].Key
       THEN IF isLeaf(n)
            THEN writeNodes(d, <<[n EXCEPT !.items = RemoveAt(n.items, idx)]>>, 1)
            ELSE IF idx + 1 >= Len(n.children) THEN [disk |-> d, err |-> "panic"]
            ELSE LET leftOffset == n.children[idx + 1]
                     rightOffset == n.children[idx + 2]
                     leftChild == readNode(d, leftOffset)
                     rightChild == readNode(d, rightOffset)
                 IN IF Len(leftChild.items) >= Degree
                    THEN LET pred == getPredecessor(d, leftChild)
                             n2 == [n EXCEPT !.items[idx + 1] = pred.item]
                             w == writeNodes(d, <<n2>>, 1)
                         IN IF pred.err # "ok" THEN [disk |-> d, err |-> "panic"]
                            ELSE IF w.err # "ok" THEN w
                            ELSE deleteFromNode(w.disk, leftOffset, pred.item.Key)
                    ELSE IF Len(rightChild.items) >= Degree
                    THEN LET succ == getSuccessor(d, rightChild)
                             n2 == [n EXCEPT !.items[idx + 1] = succ.item]
                             w == writeNodes(d, <<n2>>, 1)
                         IN IF succ.err # "ok" THEN [disk |-> d, err |-> "panic"]
                            ELSE IF w.err # "ok" THEN w
                            ELSE deleteFromNode(w.disk, rightOffset, succ.item.Key)
                    ELSE LET m == mergeNodes(d, n, idx)
                         IN IF m.err # "ok" THEN m
                            ELSE deleteFromNode(m.disk, leftOffset, key)
       ELSE IF isLeaf(n) THEN [disk |-> d, err |-> ErrorfKeyNotFound]
       ELSE IF idx >= Len(n.children) THEN [disk |-> d, err |-> "panic"]
       ELSE LET childOffset == n.children[idx + 1]
                child == readNode(d, childOffset)
            IN IF Len(child.items) < Degree
               THEN LET f == fill(d, n, idx)
                        next == ChildAfterFill(readNode(f.disk, n.offset), idx)
                    IN IF f.err # "ok" THEN f
                       ELSE IF next.err # "ok" THEN [disk |-> f.disk, err |-> "panic"]
                       ELSE deleteFromNode(f.disk, next.offset, key)
               ELSE deleteFromNode(d, childOffset, key)

\* Btree.Delete: disk, header and fields after the call
BtDeleteResult(d, hdr, root, len, key) ==
    IF len = 0
    THEN [disk |-> d, root |-> root, length |-> len, header |-> hdr,
          err |-> ErrKeyNotFound]
    ELSE LET r == deleteFromNode(d, root, key)
             rootNode == readNode(r.disk, root)
             root2 == IF Len(rootNode.items) = 0 /\ ~isLeaf(rootNode)
                      THEN rootNode.children[1] ELSE root
         IN IF r.err # "ok"
            THEN [disk |-> r.disk, root |-> root, length |-> len, header |-> hdr,
                  err |-> r.err]
            ELSE [disk |-> r.disk, root |-> root2, length |-> len - 1,
                  header |-> saveHeader(hdr, root2, len - 1), err |-> "ok"]

BtInit ==
    /\ Degree \in Degrees
    /\ btDisk = <<>>
    /\ btHeader = [root |-> 0, length |-> 0]
    /\ RootOffset = 0
    /\ Length = 0
    /\ nextOffset = 1
    /\ btCrashed = FALSE
    /\ btOps = 0
    /\ btLast = [k \in BtKeys \cup AscKeys |-> NoEntry]
    /\ btDup = FALSE
    /\ btRes = [op |-> "none", key |-> 0, err |-> "ok"]

\* the value the caller passes for k: not the one Get(k) returns now
NewValue(k) == IF BtGet(k).err = "ok" /\ BtGet(k).value = "v1" THEN "v2" ELSE "v1"

\* Btree.Insert, with at most MaxBtOps calls in a run
BtInsert(k, v) ==
    \E r \in {BtInsertResult(btDisk, btHeader, RootOffset, Length, nextOffset, k, v)} :
       /\ ~btCrashed
       /\ btOps < MaxBtOps
       /\ btOps' = btOps + 1
       /\ btDisk' = r.disk
       /\ btHeader' = r.header
       /\ RootOffset' = r.root
       /\ Length' = r.length
       /\ nextOffset' = r.next
       /\ btLast' = IF r.err = "ok" THEN [btLast EXCEPT ![k] = v] ELSE btLast
       /\ btDup' = (btDup \/ (r.err = "ok" /\ BtGet(k).err = "ok"))
       /\ btRes' = [op |-> "insert", key |-> k, err |-> r.err]
       /\ UNCHANGED <<btCrashed, Degree>>

\* Btree.Delete, with at most MaxBtOps calls in a run
BtDelete(k) ==
    \E r \in {BtDeleteResult(btDisk, btHeader, RootOffset, Length, k)} :
       /\ ~btCrashed
       /\ btOps < MaxBtOps
       /\ btOps' = btOps + 1
       /\ btDisk' = r.disk
       /\ btHeader' = r.header
       /\ RootOffset' = r.root
       /\ Length' = r.length
       /\ btCrashed' = (r.err = "panic")
       /\ btLast' = IF r.err = "ok" THEN [btLast EXCEPT ![k] = NoEntry] ELSE btLast
       /\ btRes' = [op |-> "delete", key |-> k, err |-> r.err]
       /\ UNCHANGED <<nextOffset, btDup, Degree>>

\* loadHeader: root offset and length read from page 0, the next offset taken
\* from the file size
loadHeader(d, hdr) ==
    [root |-> hdr.root, length |-> hdr.length,
     next |-> IF DOMAIN d # {} /\ Max(DOMAIN d) + 1 > 1 THEN Max(DOMAIN d) + 1 ELSE 1]

\* NewBtree on the file
BtReopen ==
    /\ RootOffset' = loadHeader(btDisk, btHeader).root
    /\ Length' = loadHeader(btDisk, btHeader).length
    /\ nextOffset' = loadHeader(btDisk, btHeader).next
    /\ btCrashed' = FALSE
    /\ btRes' = [op |-> "open", key |-> 0, err |-> "ok"]
    /\ UNCHANGED <<btDisk, btHeader, btOps, btLast, btDup, Degree>>

\* ------------------------------------------------------------------------
\* Lock-free queue (Michael-Scott, sentinel node, tagged next pointers)
\* ------------------------------------------------------------------------
\* at most MaxQueueOps calls of Enqueue, Dequeue and DequeueBatch in a run
MaxQueueOps == 3

\* the maxItems DequeueBatch is called with
BatchSizes == {2}

Producers == {"p1", "p2"}
Consumers == {"c1", "c2"}
Procs == Producers \cup Consumers

\* the zero value of T
Zero == 0

VARIABLES
    qNodes,     \* the nodes allocated so far, by address: [value, next]
    qHead,      \* q.head
    qTail,      \* q.tail
    qLength,    \* q.length
    qpc,        \* where each goroutine stands in its call
    qloc,       \* the local variables of each goroutine's call
    qRemoved,   \* the values taken by successful head swings, in order
    qPred,      \* per value, the values whose Enqueue had returned when its own was called
    qRes,       \* what the last Dequeue or DequeueBatch returned
    qSeq,       \* no call has started while another was running
    qOps        \* calls started

qVars == <<qNodes, qHead, qTail, qLength, qpc, qloc, qRemoved, qPred, qRes, qSeq, qOps>>

\* a nodePointer; ptr 0 is nil
nodePointer(ptr, tag) == [ptr |-> ptr, tag |-> tag]

\* the node Enqueue allocates
newNode(value) == [value |-> value, next |-> nodePointer(0, 0)]

NoLocals ==
    [node |-> 0, tail |-> 0, head |-> 0, next |-> nodePointer(0, 0), value |-> Zero,
     mode |-> "none", left |-> 0, result |-> <<>>]

\* the locals at the top of the retry loop: the loads of the last round are dead
Retry(l) == [l EXCEPT !.tail = 0, !.head = 0, !.next = nodePointer(0, 0)]

\* NewLFQueue: head and tail at the sentinel
QueueInit ==
    /\ qNodes = <<newNode(Zero)>>
    /\ qHead = 1
    /\ qTail = 1
    /\ qLength = 0
    /\ qpc = [p \in Procs |-> "idle"]
    /\ qloc = [p \in Procs |-> NoLocals]
    /\ qRemoved = <<>>
    /\ qPred = <<>>
    /\ qRes = [op |-> "none", ok |-> TRUE, value |-> Zero, items |-> <<>>, empty |-> TRUE,
               taken |-> 0]
    /\ qSeq = TRUE
    /\ qOps = 0

\* a store of new into the word whatever it holds
StorePointer(cur, old, new) == [ok |-> TRUE, val |-> new]

\* atomic.CompareAndSwapPointer on a word holding cur
CompareAndSwap(cur, old, new) ==
    [ok |-> cur = old, val |-> IF cur = old THEN new ELSE cur]

AllIdle == \A p \in Procs : qpc[p] = "idle"

\* the values whose Enqueue has returned
EnqReturned ==
    {v \in 1..(Len(qNodes) - 1) :
        \A p \in Producers : qpc[p] = "idle" \/ qloc[p].node # v + 1}

RECURSIVE ChainFrom(_, _)
\* the values of the nodes linked behind node n, up to node stop (0: to the end)
ChainFrom(n, stop) ==
    IF n = stop \/ qNodes[n].next.ptr = 0 THEN <<>>
    ELSE <<qNodes[qNodes[n].next.ptr].value>> \o ChainFrom(qNodes[n].next.ptr, stop)

\* the values in the queue: those of the nodes behind the head
QueueContents == ChainFrom(qHead, 0)

SeqRange(s) == {s[i] : i \in 1..Len(s)}

\* ---- Enqueue ----
\* Enqueue is called with a value not used before; the new node is allocated and
\* the first round begins: tail := load(q.tail)
EnqueueCall(p) ==
    /\ p \in Producers
    /\ qpc[p] = "idle"
    /\ qOps < MaxQueueOps
    /\ qOps' = qOps + 1
    /\ qNodes' = Append(qNodes, newNode(Len(qNodes)))
    /\ qPred' = Append(qPred, EnqReturned)
    /\ qloc' = [qloc EXCEPT ![p] = [NoLocals EXCEPT !.node = Len(qNodes) + 1,
                                                     !.tail = qTail]]
    /\ qpc' = [qpc EXCEPT ![p] = "e_load_next"]
    /\ qSeq' = (qSeq /\ AllIdle)
    /\ UNCHANGED <<qHead, qTail, qLength, qRemoved, qRes>>

\* a further round begins: tail := load(q.tail)
EnqueueLoadTail(p) ==
    /\ qpc[p] = "e_load_tail"
    /\ qloc' = [qloc EXCEPT ![p].tail = qTail]
    /\ qpc' = [qpc EXCEPT ![p] = "e_load_next"]
    /\ UNCHANGED <<qNodes, qHead, qTail, qLength, qRemoved, qPred, qRes, qSeq, qOps>>

\* next := load(tail.next)
EnqueueLoadNext(p) ==
    /\ qpc[p] = "e_load_next"
    /\ qloc' = [qloc EXCEPT ![p].next = qNodes[qloc[p].tail].next]
    /\ qpc' = [qpc EXCEPT ![p] = "e_check"]
    /\ UNCHANGED <<qNodes, qHead, qTail, qLength, qRemoved, qPred, qRes, qSeq, qOps>>

\* the tail is loaded again: retry if it moved, help if it lags, else link
EnqueueCheckTail(p) ==
    /\ qpc[p] = "e_check"
    /\ qpc' = [qpc EXCEPT ![p] =
                  IF qTail # qloc[p].tail THEN "e_load_tail"
                  ELSE IF qloc[p].next.ptr # 0 THEN "e_help"
                  ELSE "e_link"]
    /\ qloc' = [qloc EXCEPT ![p] = IF qTail # qloc[p].tail THEN Retry(@) ELSE @]
    /\ UNCHANGED <<qNodes, qHead, qTail, qLength, qRemoved, qPred, qRes, qSeq, qOps>>

\* CAS(q.tail, tail, tailNext.ptr), then retry
EnqueueHelpTail(p) ==
    /\ qpc[p] = "e_help"
    /\ qTail' = CompareAndSwap(qTail, qloc[p].tail, qloc[p].next.ptr).val
    /\ qpc' = [qpc EXCEPT ![p] = "e_load_tail"]
    /\ qloc' = [qloc EXCEPT ![p] = Retry(@)]
    /\ UNCHANGED <<qNodes, qHead, qLength, qRemoved, qPred, qRes, qSeq, qOps>>

\* CAS(tail.next, next, {newNode, tag+1}); retry when it fails
EnqueueLink(p) ==
    LET l == qloc[p]
        cas == CompareAndSwap(qNodes[l.tail].next, l.next,
                              nodePointer(l.node, l.next.tag + 1))
    IN /\ qpc[p] = "e_link"
       /\ qNodes' = [qNodes EXCEPT ![l.tail].next = cas.val]
       /\ qpc' = [qpc EXCEPT ![p] = IF cas.ok THEN "e_swing" ELSE "e_load_tail"]
       /\ qloc' = [qloc EXCEPT ![p] = IF cas.ok THEN [@ EXCEPT !.next = nodePointer(0, 0)]
                                      ELSE Retry(@)]
       /\ UNCHANGED <<qHead, qTail, qLength, qRemoved, qPred, qRes, qSeq, qOps>>

\* CAS(q.tail, tail, newNode)
EnqueueSwingTail(p) ==
    /\ qpc[p] = "e_swing"
    /\ qTail' = CompareAndSwap(qTail, qloc[p].tail, qloc[p].node).val
    /\ qpc' = [qpc EXCEPT ![p] = "e_count"]
    /\ qloc' = [qloc EXCEPT ![p] = Retry(@)]
    /\ UNCHANGED <<qNodes, qHead, qLength, qRemoved, qPred, qRes, qSeq, qOps>>

\* length++ and return true
EnqueueReturn(p) ==
    /\ qpc[p] = "e_count"
    /\ qLength' = qLength + 1
    /\ qpc' = [qpc EXCEPT ![p] = "idle"]
    /\ qloc' = [qloc EXCEPT ![p] = NoLocals]
    /\ UNCHANGED <<qNodes, qHead, qTail, qRemoved, qPred, qRes, qSeq, qOps>>

\* ---- Dequeue and DequeueBatch ----
\* Dequeue is called, alone (maxItems 0 here) or as the first call of
\* DequeueBatch(maxItems), and its first round begins: headPtr := load(q.head)
DequeueCall(c, maxItems) ==
    /\ c \in Consumers
    /\ qpc[c] = "idle"
    /\ qOps < MaxQueueOps
    /\ qOps' = qOps + 1
    /\ qloc' = [qloc EXCEPT ![c] = [NoLocals EXCEPT
                                       !.mode = IF maxItems > 0 THEN "batch" ELSE "one",
                                       !.left = maxItems,
                                       !.head = qHead]]
    /\ qpc' = [qpc EXCEPT ![c] = "d_load_tail"]
    /\ qSeq' = (qSeq /\ AllIdle)
    /\ UNCHANGED <<qNodes, qHead, qTail, qLength, qRemoved, qPred, qRes>>

\* a further round, or the next Dequeue of a batch, begins: headPtr := load(q.head)
DequeueLoadHead(c) ==
    /\ qpc[c] = "d_load_head"
    /\ qloc' = [qloc EXCEPT ![c].head = qHead]
    /\ qpc' = [qpc EXCEPT ![c] = "d_load_tail"]
    /\ UNCHANGED <<qNodes, qHead, qTail, qLength, qRemoved, qPred, qRes, qSeq, qOps>>

\* tailPtr := load(q.tail)
DequeueLoadTail(c) ==
    /\ qpc[c] = "d_load_tail"
    /\ qloc' = [qloc EXCEPT ![c].tail = qTail]
    /\ qpc' = [qpc EXCEPT ![c] = "d_load_next"]
    /\ UNCHANGED <<qNodes, qHead, qTail, qLength, qRemoved, qPred, qRes, qSeq, qOps>>

\* value = headNext.ptr.value with a read of the head node's own value
DequeuedValueOfHead(nodes, head, next) == nodes[head].value

\* value = headNext.ptr.value
DequeuedValue(nodes, head, next) == nodes[next.ptr].value

\* what a Dequeue that returns (value, ok) leaves: its caller's locals, position and
\* result; DequeueBatch appends a value, stops at maxItems or at the first failure
DequeueDone(c, value, ok) ==
    LET l == qloc[c]
        items == IF ok THEN Append(l.result, value) ELSE l.result
        more == l.mode = "batch" /\ ok /\ l.left - 1 > 0
    IN [pc |-> IF more THEN "d_load_head" ELSE "idle",
        loc |-> IF more THEN [NoLocals EXCEPT !.mode = "batch", !.left = l.left - 1,
                                              !.result = items]
                ELSE NoLocals,
        res |-> IF more THEN qRes
                ELSE [op |-> IF l.mode = "batch" THEN "batch" ELSE "dequeue",
                      ok |-> ok, value |-> value,
                      items |-> IF l.mode = "batch" THEN items ELSE <<>>,
                      empty |-> qNodes[qHead].next.ptr = 0,
                      taken |-> Len(qRemoved)]]

\* headNext := load(head.next); nil: return (value, false); head = tail: help;
\* else read the value of the next node
DequeueLoadNext(c) ==
    LET l == qloc[c]
        next == qNodes[l.head].next
        done == DequeueDone(c, l.value, FALSE)
    IN /\ qpc[c] = "d_load_next"
       /\ IF next.ptr = 0
          THEN /\ qpc' = [qpc EXCEPT ![c] = done.pc]
               /\ qloc' = [qloc EXCEPT ![c] = done.loc]
               /\ qRes' = done.res
          ELSE /\ qpc' = [qpc EXCEPT ![c] = IF l.head = l.tail THEN "d_help" ELSE "d_cas"]
               /\ qloc' = [qloc EXCEPT ![c].next = next,
                                       ![c].value = IF l.head = l.tail THEN l.value
                                                    ELSE DequeuedValue(qNodes, l.head, next),
                                       ![c].head = IF l.head = l.tail THEN 0 ELSE l.head,
                                       ![c].tail = IF l.head = l.tail THEN l.tail ELSE 0]
               /\ UNCHANGED qRes
       /\ UNCHANGED <<qNodes, qHead, qTail, qLength, qRemoved, qPred, qSeq, qOps>>

\* CAS(q.tail, tailPtr, headNext.ptr), then retry
DequeueHelpTail(c) ==
    /\ qpc[c] = "d_help"
    /\ qTail' = CompareAndSwap(qTail, qloc[c].tail, qloc[c].next.ptr).val
    /\ qpc' = [qpc EXCEPT ![c] = "d_load_head"]
    /\ qloc' = [qloc EXCEPT ![c] = Retry(@)]
    /\ UNCHANGED <<qNodes, qHead, qLength, qRemoved, qPred, qRes, qSeq, qOps>>

\* the head swing with a store in place of the compare-and-swap
AdvanceHeadStore(cur, head, next) == [ok |-> TRUE, val |-> next.ptr]

\* CAS(q.head, headPtr, headNext.ptr)
AdvanceHead(cur, head, next) == CompareAndSwap(cur, head, next.ptr)

\* the head swing: on success the value is taken, on failure retry
DequeueSwingHead(c) ==
    LET l == qloc[c]
        cas == AdvanceHead(qHead, l.head, l.next)
    IN /\ qpc[c] = "d_cas"
       /\ qHead' = cas.val
       /\ qRemoved' = IF cas.ok THEN Append(qRemoved, l.value) ELSE qRemoved
       /\ qpc' = [qpc EXCEPT ![c] = IF cas.ok THEN "d_count" ELSE "d_load_head"]
       /\ qloc' = [qloc EXCEPT ![c] = Retry(@)]
       /\ UNCHANGED <<qNodes, qTail, qLength, qPred, qRes, qSeq, qOps>>

\* length-- and return (value, true)
DequeueReturn(c) ==
    LET done == DequeueDone(c, qloc[c].value, TRUE)
    IN /\ qpc[c] = "d_count"
       /\ qLength' = qLength - 1
       /\ qpc' = [qpc EXCEPT ![c] = done.pc]
       /\ qloc' = [qloc EXCEPT ![c] = done.loc]
       /\ qRes' = done.res
       /\ UNCHANGED <<qNodes, qHead, qTail, qRemoved, qPred, qSeq, qOps>>

\* ========================================================================
\* The LSM coordinator under concurrent callers: LSMTree.Insert, Delete,
\* ForceCompaction and flushMemTable step by step. Each memtable is an object
\* with an identity; l.memTable is the atomic pointer to the active one. The
\* WAL channel, its worker, the SSTable files and the levels are the variables
\* of the LSM section.
\* ========================================================================
MaxCoordOps == 3

Goroutines == {"g1", "g2"}

VARIABLES
    mts,        \* the MemTable objects created so far: table, size, swapped
    mtPtr,      \* l.memTable: the object the atomic pointer refers to
    mu,         \* l.mu: the goroutine that holds the write lock, or "free"
    flushMu,    \* l.flushMu: the goroutine that holds it, or "free"
    gpc,        \* goroutine -> the statement it executes next
    gloc,       \* goroutine -> the locals of its call
    acked,      \* the mutations that returned nil, in the order of their return
    coOps       \* the number of calls made

coordVars == <<mts, mtPtr, mu, flushMu, gpc, gloc, acked, coOps>>

\* NewMemTable
NewMemTable == [table |-> EmptyTable, size |-> 0, swapped |-> FALSE]

NoCall == [op |-> "none", key |-> 0, value |-> "", mt |-> 0, data |-> EmptyTable,
           retry |-> FALSE]

CoordInit ==
    /\ mts = <<NewMemTable>>
    /\ mtPtr = 1
    /\ mu = "free"
    /\ flushMu = "free"
    /\ gpc = [g \in Goroutines |-> "idle"]
    /\ gloc = [g \in Goroutines |-> NoCall]
    /\ acked = <<>>
    /\ coOps = 0

\* the call of g returns; a mutation that returns nil is acknowledged, with the
\* memtable object it was applied to and whether Swap had already run on it
Acknowledge(g, ok) ==
    /\ gpc' = [gpc EXCEPT ![g] = "idle"]
    /\ gloc' = [gloc EXCEPT ![g] = NoCall]
    /\ acked' = IF ok
                THEN Append(acked, [op |-> gloc[g].op, key |-> gloc[g].key,
                                    value |-> gloc[g].value, mt |-> gloc[g].mt,
                                    late |-> mts[gloc[g].mt].swapped])
                ELSE acked

\* LSMTree.Insert: l.wal.Append(entry)
InsertAppend(g, k, v) ==
    /\ gpc[g] = "idle"
    /\ coOps < MaxCoordOps
    /\ Len(walCh) < WalChCap
    /\ walCh' = Append(walCh, [Op |-> OpInsert, Key |-> k, Value |-> v])
    /\ entryCount' = entryCount + 1
    /\ coOps' = coOps + 1
    /\ gpc' = [gpc EXCEPT ![g] = "insert_load"]
    /\ gloc' = [gloc EXCEPT ![g] = [NoCall EXCEPT !.op = "insert", !.key = k, !.value = v]]
    /\ UNCHANGED <<mts, mtPtr, mu, flushMu, acked, walHeld, walFile, levels, files>>

\* LSMTree.Insert: mt := l.memTable.Load(), before l.mu.RLock()
InsertLoad(g) ==
    /\ gpc[g] = "insert_load"
    /\ gloc' = [gloc EXCEPT ![g].mt = mtPtr]
    /\ gpc' = [gpc EXCEPT ![g] = "insert_memtable"]
    /\ UNCHANGED <<mts, mtPtr, mu, flushMu, acked, coOps,
                   walCh, walHeld, walFile, entryCount, levels, files>>

\* LSMTree.Insert: l.mu.RLock(); mt.Insert(key, value); l.mu.RUnlock(), and the
\* return or the call of flushMemTable that follows
InsertMemTable(g) ==
    /\ gpc[g] = "insert_memtable"
    /\ mu = "free"
    /\ LET m == mts[gloc[g].mt]
       IN IF MemInsertOk(m.size, gloc[g].key, gloc[g].value)
          THEN /\ mts' = [mts EXCEPT ![gloc[g].mt] =
                            [m EXCEPT !.table = MemInsertTable(m.table, gloc[g].key, gloc[g].value),
                                      !.size = m.size + KeyLen(gloc[g].key) + ValLen(gloc[g].value)]]
               /\ Acknowledge(g, TRUE)
          ELSE IF gloc[g].retry
          THEN /\ Acknowledge(g, FALSE)
               /\ UNCHANGED mts
          ELSE /\ gpc' = [gpc EXCEPT ![g] = "flush_lock"]
               /\ UNCHANGED <<mts, gloc, acked>>
    /\ UNCHANGED <<mtPtr, mu, flushMu, coOps,
                   walCh, walHeld, walFile, entryCount, levels, files>>

\* LSMTree.Delete: l.wal.Append(entry)
DeleteAppend(g, k) ==
    /\ gpc[g] = "idle"
    /\ coOps < MaxCoordOps
    /\ Len(walCh) < WalChCap
    /\ walCh' = Append(walCh, [Op |-> OpDelete, Key |-> k, Value |-> ""])
    /\ entryCount' = entryCount + 1
    /\ coOps' = coOps + 1
    /\ gpc' = [gpc EXCEPT ![g] = "delete_load"]
    /\ gloc' = [gloc EXCEPT ![g] = [NoCall EXCEPT !.op = "delete", !.key = k]]
    /\ UNCHANGED <<mts, mtPtr, mu, flushMu, acked, walHeld, walFile, levels, files>>

\* LSMTree.Delete: mt := l.memTable.Load()
DeleteLoad(g) ==
    /\ gpc[g] = "delete_load"
    /\ gloc' = [gloc EXCEPT ![g].mt = mtPtr]
    /\ gpc' = [gpc EXCEPT ![g] = "delete_memtable"]
    /\ UNCHANGED <<mts, mtPtr, mu, flushMu, acked, coOps,
                   walCh, walHeld, walFile, entryCount, levels, files>>

\* LSMTree.Delete: mt.Delete(key) stores the tombstone with no lock held. A
\* store that races with Swap either is in the snapshot (this step before
\* Swap) or goes to a table that is no longer read (this step after Swap).
DeleteMemTable(g) ==
    /\ gpc[g] = "delete_memtable"
    /\ mts' = [mts EXCEPT ![gloc[g].mt].table = MemDelete(mts[gloc[g].mt].table, gloc[g].key)]
    /\ Acknowledge(g, TRUE)
    /\ UNCHANGED <<mtPtr, mu, flushMu, coOps,
                   walCh, walHeld, walFile, entryCount, levels, files>>

\* LSMTree.ForceCompaction: mt := l.memTable.Load(); mt.Size() > 0
ForceCompactionLoad(g) ==
    /\ gpc[g] = "idle"
    /\ coOps < MaxCoordOps
    /\ coOps' = coOps + 1
    /\ gloc' = [gloc EXCEPT ![g] = [NoCall EXCEPT !.op = "force", !.mt = mtPtr]]
    /\ gpc' = [gpc EXCEPT ![g] = IF mts[mtPtr].size > 0 THEN "flush_lock" ELSE "compact"]
    /\ UNCHANGED <<mts, mtPtr, mu, flushMu, acked,
                   walCh, walHeld, walFile, entryCount, levels, files>>

\* LSMTree.ForceCompaction: l.compactor.Compact() under c.mu and l.mu
ForceCompactionCompact(g) ==
    /\ gpc[g] = "compact"
    /\ mu = "free"
    /\ IF CompactDue(levels)
       THEN /\ files' = CompactedFiles(levels, files)
            /\ levels' = CompactedLevels(levels, files)
       ELSE UNCHANGED <<levels, files>>
    /\ Acknowledge(g, FALSE)
    /\ UNCHANGED <<mts, mtPtr, mu, flushMu, coOps, walCh, walHeld, walFile, entryCount>>

\* flushMemTable: l.flushMu.Lock()
flushMemTableLock(g) ==
    /\ gpc[g] = "flush_lock"
    /\ flushMu = "free"
    /\ flushMu' = g
    /\ gpc' = [gpc EXCEPT ![g] = "flush_begin"]
    /\ UNCHANGED <<mts, mtPtr, mu, gloc, acked, coOps,
                   walCh, walHeld, walFile, entryCount, levels, files>>

\* where the caller of flushMemTable goes on: Insert loads the pointer again,
\* ForceCompaction calls Compact
AfterFlush(g) == IF gloc[g].op = "insert" THEN "insert_load" ELSE "compact"

\* flushMemTable: l.mu.Lock(); oldMT := l.memTable.Load(); with Size() = 0 the
\* locks are released and the call returns nil
flushMemTableBegin(g) ==
    /\ gpc[g] = "flush_begin"
    /\ mu = "free"
    /\ IF mts[mtPtr].size = 0
       THEN /\ flushMu' = "free"
            /\ gpc' = [gpc EXCEPT ![g] = AfterFlush(g)]
            /\ gloc' = [gloc EXCEPT ![g].retry = TRUE]
            /\ UNCHANGED mu
       ELSE /\ mu' = g
            /\ gloc' = [gloc EXCEPT ![g].mt = mtPtr]
            /\ gpc' = [gpc EXCEPT ![g] = "flush_swap"]
            /\ UNCHANGED flushMu
    /\ UNCHANGED <<mts, mtPtr, acked, coOps,
                   walCh, walHeld, walFile, entryCount, levels, files>>

\* flushMemTable: data := oldMT.Swap()
flushMemTableSwap(g) ==
    /\ gpc[g] = "flush_swap"
    /\ gloc' = [gloc EXCEPT ![g].data = SwapData(mts[gloc[g].mt].table)]
    /\ mts' = [mts EXCEPT ![gloc[g].mt] = [table |-> EmptyTable, size |-> 0, swapped |-> TRUE]]
    /\ gpc' = [gpc EXCEPT ![g] = "flush_store"]
    /\ UNCHANGED <<mtPtr, mu, flushMu, acked, coOps,
                   walCh, walHeld, walFile, entryCount, levels, files>>

\* flushMemTable: l.memTable.Store(NewMemTable(...)), then CreateSSTable, the
\* append to level 0, the sort and l.mu.Unlock()
flushMemTableStore(g) ==
    /\ gpc[g] = "flush_store"
    /\ mts' = Append(mts, NewMemTable)
    /\ mtPtr' = Len(mts) + 1
    /\ files' = FlushedFiles(gloc[g].data, files)
    /\ levels' = FlushedLevels(gloc[g].data, levels, files)
    /\ mu' = "free"
    /\ gpc' = [gpc EXCEPT ![g] = "flush_wal"]
    /\ UNCHANGED <<flushMu, gloc, acked, coOps, walCh, walHeld, walFile, entryCount>>

\* flushMemTable: l.wal.Flush() returns once it has seen the channel empty
flushMemTableWalFlush(g) ==
    /\ gpc[g] = "flush_wal"
    /\ Len(walCh) = 0
    /\ gpc' = [gpc EXCEPT ![g] = "flush_reset"]
    /\ UNCHANGED <<mts, mtPtr, mu, flushMu, gloc, acked, coOps,
                   walCh, walHeld, walFile, entryCount, levels, files>>

\* flushMemTable: l.wal.Reset(), the deferred l.flushMu.Unlock() and the return
flushMemTableWalReset(g) ==
    /\ gpc[g] = "flush_reset"
    /\ walFile' = <<>>
    /\ entryCount' = 0
    /\ flushMu' = "free"
    /\ gpc' = [gpc EXCEPT ![g] = AfterFlush(g)]
    /\ gloc' = [gloc EXCEPT ![g].retry = TRUE]
    /\ UNCHANGED <<mts, mtPtr, mu, acked, coOps, walCh, walHeld, levels, files>>

\* the LSM variables the coordinator steps do not use
coordFrame == <<memTable, memSize, cache, pc, pend, closed, last, nOps, opens, sinceOpen>>

\* ========================================================================
\* The memtables as objects: one lsmtree.MemTable and one lockfree.lfMemtable,
\* each called through its own methods
\* ========================================================================
\* at most MaxMemOps method calls on the two memtables in a run
MaxMemOps == 4

\* the byte caps NewMemTable is given
MtCaps == {4, 5}
MtValues == {"v1", LongValue}

VARIABLES
    mtTable,       \* MemTable.table: key -> value, tombstone or NoEntry
    mtSize,        \* MemTable.size
    mtMaxSize,     \* MemTable.maxSize
    mtRes,         \* the last call on the MemTable, what it returned, its number
    memOps         \* number of calls on the two memtables so far

mtVars == <<mtTable, mtSize, mtMaxSize, mtRes>>

NoMap == [k \in Keys |-> NoEntry]

\* MemTable.Dump: the entries whose value is the tombstone are skipped
MtDump(mt) == [k \in Keys |-> IF mt[k] = tombstone THEN NoEntry ELSE mt[k]]

\* NewMemTable(maxSize)
MtInit ==
    /\ mtTable = EmptyTable
    /\ mtSize = 0
    /\ mtMaxSize \in MtCaps
    /\ mtRes = [op |-> "none", key |-> 0, value |-> "", err |-> "ok", data |-> NoMap,
                n |-> 0]

\* MemTable.Insert
MtInsert(k, v) ==
    /\ memOps < MaxMemOps
    /\ memOps' = memOps + 1
    /\ IF InsertFits(mtSize, mtMaxSize, k, v)
       THEN /\ mtTable' = MemInsertTable(mtTable, k, v)
            /\ mtSize' = mtSize + KeyLen(k) + ValLen(v)
            /\ mtRes' = [op |-> "insert", key |-> k, value |-> v, err |-> "ok",
                         data |-> NoMap, n |-> mtRes.n + 1]
       ELSE /\ mtRes' = [op |-> "insert", key |-> k, value |-> v, err |-> "full",
                         data |-> NoMap, n |-> mtRes.n + 1]
            /\ UNCHANGED <<mtTable, mtSize>>
    /\ UNCHANGED mtMaxSize

\* MemTable.Delete
MtDelete(k) ==
    /\ memOps < MaxMemOps
    /\ memOps' = memOps + 1
    /\ mtTable' = MemDelete(mtTable, k)
    /\ mtRes' = [op |-> "delete", key |-> k, value |-> "", err |-> "ok", data |-> NoMap,
                 n |-> mtRes.n + 1]
    /\ UNCHANGED <<mtSize, mtMaxSize>>

\* MemTable.Swap
MtSwap ==
    /\ memOps < MaxMemOps
    /\ memOps' = memOps + 1
    /\ mtTable' = EmptyTable
    /\ mtSize' = 0
    /\ mtRes' = [op |-> "swap", key |-> 0, value |-> "", err |-> "ok",
                 data |-> SwapData(mtTable), n |-> mtRes.n + 1]
    /\ UNCHANGED mtMaxSize

\* ------------------------------------------------------------------------
\* lockfree.lfMemtable: the skip list. A pointer is the index of a node in
\* lfNodes, 0 is nil; level i of the Go code is index i + 1 of next.
\* ------------------------------------------------------------------------
LfMaxLevel == 2
LfThreads == {"t1", "t2"}
LfKeys == {1, 2}
LfLevels == 1..LfMaxLevel

VARIABLES
    lfNodes,       \* the mnodes allocated so far
    lfHead,        \* lfMemtable.head
    lfLength,      \* lfMemtable.length
    lfpc,          \* per thread: its position inside Insert or Swap
    lfloc,         \* per thread: the locals of the call it is in
    lfSwapRes,     \* the last Swap that returned: its snapshot, and whether it ran alone
    lfIns,         \* the keys of the Inserts that returned nil
    lfDel,         \* the keys Delete has been called with
    lfSnapKeys,    \* the keys of the snapshots the Swaps have returned
    lfRes          \* the last Delete: its key and what it returned

lfVars == <<lfNodes, lfHead, lfLength, lfpc, lfloc, lfSwapRes, lfIns, lfDel,
            lfSnapKeys, lfRes>>

NoPtrs == [i \in LfLevels |-> 0]

\* the sentinel of NewLFMemtable: empty key, maximum level, every next nil
LfSentinel == [key |-> 0, value |-> "", next |-> NoPtrs, level |-> LfMaxLevel,
               deleted |-> 0]

NoLfCall == [key |-> 0, value |-> "", preds |-> NoPtrs, succs |-> NoPtrs, node |-> 0,
             i |-> 0, snapshot |-> NoMap, alone |-> FALSE]

RECURSIVE LfWalk(_, _, _, _)
\* the inner loop of find at one level: advance while next.key < key
LfWalk(nodes, x, key, i) ==
    LET next == nodes[x].next[i]
    IN IF next = 0 \/ nodes[next].key >= key THEN x
       ELSE LfWalk(nodes, next, key, i)

RECURSIVE LfPred(_, _, _, _)
\* preds[i] of find: the walk at level i starts where the level above stopped
LfPred(nodes, head, key, i) ==
    IF i = LfMaxLevel THEN LfWalk(nodes, head, key, i)
    ELSE LfWalk(nodes, LfPred(nodes, head, key, i + 1), key, i)

\* lfMemtable.find
find(nodes, head, key) ==
    LET preds == [i \in LfLevels |-> LfPred(nodes, head, key, i)]
        succs == [i \in LfLevels |-> nodes[preds[i]].next[i]]
    IN [preds |-> preds, succs |-> succs,
        node |-> IF succs[1] # 0 /\ nodes[succs[1]].key = key THEN succs[1] ELSE 0]

RECURSIVE LfScan(_, _, _)
\* the second loop of Get: along level 0 while x.key < key
LfScan(nodes, x, key) ==
    IF x # 0 /\ nodes[x].key < key THEN LfScan(nodes, nodes[x].next[1], key) ELSE x

\* lfMemtable.Get
LfGetOn(nodes, head, key) ==
    LET x == LfScan(nodes, nodes[head].next[1], key)
    IN IF x # 0 /\ nodes[x].key = key /\ nodes[x].deleted = 0
       THEN [value |-> nodes[x].value, ok |-> TRUE]
       ELSE [value |-> "", ok |-> FALSE]

RECURSIVE LfDumpFrom(_, _, _)
\* the loop of Dump along level 0: result[x.key] = x.value for the nodes that
\* are not deleted, a later node of a key replacing an earlier one
LfDumpFrom(nodes, x, result) ==
    IF x = 0 THEN result
    ELSE LfDumpFrom(nodes, nodes[x].next[1],
                    IF nodes[x].deleted = 0
                    THEN [result EXCEPT ![nodes[x].key] = nodes[x].value]
                    ELSE result)

\* lfMemtable.Dump
LfDumpOn(nodes, head) == LfDumpFrom(nodes, nodes[head].next[1], NoMap)

LfInit ==
    /\ lfNodes = <<LfSentinel>>
    /\ lfHead = 1
    /\ lfLength = 0
    /\ lfpc = [t \in LfThreads |-> "idle"]
    /\ lfloc = [t \in LfThreads |-> NoLfCall]
    /\ lfSwapRes = [snapshot |-> NoMap, alone |-> FALSE, n |-> 0]
    /\ lfIns = {}
    /\ lfDel = {}
    /\ lfSnapKeys = {}
    /\ lfRes = [key |-> 0, err |-> "none"]

\* a call of thread t begins: a Swap that is under way no longer runs alone
LfCallBegins(t, call) ==
    [u \in LfThreads |->
        IF u = t THEN call
        ELSE IF lfpc[u] # "idle" THEN [lfloc[u] EXCEPT !.alone = FALSE]
        ELSE lfloc[u]]

\* Insert is called
LfInsertCall(t, k, v) ==
    /\ lfpc[t] = "idle"
    /\ memOps < MaxMemOps
    /\ memOps' = memOps + 1
    /\ lfpc' = [lfpc EXCEPT ![t] = "find"]
    /\ lfloc' = LfCallBegins(t, [NoLfCall EXCEPT !.key = k, !.value = v])
    /\ UNCHANGED <<lfNodes, lfHead, lfLength, lfSwapRes, lfIns, lfDel, lfSnapKeys, lfRes>>

\* Insert, one turn of its loop up to the CAS at level 0: find, then either the
\* update of a node that is not deleted or a new node of a random level
LfInsertFind(t, level) ==
    /\ lfpc[t] = "find"
    /\ LET f == find(lfNodes, lfHead, lfloc[t].key)
       IN IF f.node # 0 /\ lfNodes[f.node].deleted = 0
          THEN /\ lfNodes' = [lfNodes EXCEPT ![f.node].value = lfloc[t].value]
               /\ lfpc' = [lfpc EXCEPT ![t] = "idle"]
               /\ lfIns' = lfIns \cup {lfloc[t].key}
               /\ UNCHANGED lfloc
          ELSE /\ lfNodes' = Append(lfNodes,
                                   [key |-> lfloc[t].key, value |-> lfloc[t].value,
                                    next |-> [i \in LfLevels |->
                                                IF i <= level THEN f.succs[i] ELSE 0],
                                    level |-> level, deleted |-> 0])
               /\ lfloc' = [lfloc EXCEPT ![t].preds = f.preds, ![t].succs = f.succs,
                                         ![t].node = Len(lfNodes) + 1]
               /\ lfpc' = [lfpc EXCEPT ![t] = "cas0"]
               /\ UNCHANGED lfIns
    /\ UNCHANGED <<lfHead, lfLength, lfSwapRes, lfDel, lfSnapKeys, lfRes, memOps>>

\* Insert: preds[0].next[0].CompareAndSwap(succs[0], newNode); a failure starts
\* the loop again
LfInsertCas0(t) ==
    /\ lfpc[t] = "cas0"
    /\ LET l == lfloc[t]
       IN IF lfNodes[l.preds[1]].next[1] = l.succs[1]
          THEN /\ lfNodes' = [lfNodes EXCEPT ![l.preds[1]].next[1] = l.node]
               /\ lfpc' = [lfpc EXCEPT ![t] = IF lfNodes[l.node].level > 1
                                                THEN "link" ELSE "count"]
               /\ lfloc' = [lfloc EXCEPT ![t].i = 2]
          ELSE /\ lfpc' = [lfpc EXCEPT ![t] = "find"]
               /\ UNCHANGED <<lfNodes, lfloc>>
    /\ UNCHANGED <<lfHead, lfLength, lfSwapRes, lfIns, lfDel, lfSnapKeys, lfRes, memOps>>

\* Insert: the CAS at level i >= 1; on a failure find runs again and the CAS is
\* tried once more
LfInsertLink(t) ==
    /\ lfpc[t] = "link"
    /\ LET l == lfloc[t]
           f == find(lfNodes, lfHead, l.key)
       IN IF lfNodes[l.preds[l.i]].next[l.i] = l.succs[l.i]
          THEN /\ lfNodes' = [lfNodes EXCEPT ![l.preds[l.i]].next[l.i] = l.node]
               /\ lfpc' = [lfpc EXCEPT ![t] = IF l.i + 1 > lfNodes[l.node].level
                                                THEN "count" ELSE "link"]
               /\ lfloc' = [lfloc EXCEPT ![t].i = l.i + 1]
          ELSE /\ lfloc' = [lfloc EXCEPT ![t].preds = f.preds, ![t].succs = f.succs]
               /\ UNCHANGED <<lfNodes, lfpc>>
    /\ UNCHANGED <<lfHead, lfLength, lfSwapRes, lfIns, lfDel, lfSnapKeys, lfRes, memOps>>

\* Insert: atomic.AddInt64(&m.length, 1); return nil
LfInsertCount(t) ==
    /\ lfpc[t] = "count"
    /\ lfLength' = lfLength + 1
    /\ lfIns' = lfIns \cup {lfloc[t].key}
    /\ lfpc' = [lfpc EXCEPT ![t] = "idle"]
    /\ UNCHANGED <<lfNodes, lfHead, lfloc, lfSwapRes, lfDel, lfSnapKeys, lfRes, memOps>>

\* lfMemtable.Delete
LfDelete(t, k) ==
    /\ lfpc[t] = "idle"
    /\ memOps < MaxMemOps
    /\ memOps' = memOps + 1
    /\ lfDel' = lfDel \cup {k}
    /\ lfloc' = LfCallBegins(t, NoLfCall)
    /\ LET target == find(lfNodes, lfHead, k).node
       IN IF target = 0
          THEN /\ lfRes' = [key |-> k, err |-> "key not found"]
               /\ UNCHANGED <<lfNodes, lfLength>>
          ELSE IF lfNodes[target].deleted # 0
          THEN /\ lfRes' = [key |-> k, err |-> "already deleted"]
               /\ UNCHANGED <<lfNodes, lfLength>>
          ELSE /\ lfNodes' = [lfNodes EXCEPT ![target].deleted = 1]
               /\ lfLength' = lfLength - 1
               /\ lfRes' = [key |-> k, err |-> "ok"]
    /\ UNCHANGED <<lfHead, lfpc, lfSwapRes, lfIns, lfSnapKeys>>

\* Swap: snapshot := m.Dump()
LfSwapDump(t) ==
    /\ lfpc[t] = "idle"
    /\ memOps < MaxMemOps
    /\ memOps' = memOps + 1
    /\ lfpc' = [lfpc EXCEPT ![t] = "swap_length"]
    /\ lfloc' = LfCallBegins(t, [NoLfCall EXCEPT
                     !.snapshot = LfDumpOn(lfNodes, lfHead),
                     !.alone = \A u \in LfThreads \ {t} : lfpc[u] = "idle"])
    /\ UNCHANGED <<lfNodes, lfHead, lfLength, lfSwapRes, lfIns, lfDel, lfSnapKeys, lfRes>>

\* Swap: atomic.StoreInt64(&m.length, 0)
LfSwapLength(t) ==
    /\ lfpc[t] = "swap_length"
    /\ lfLength' = 0
    /\ lfpc' = [lfpc EXCEPT ![t] = "swap_head"]
    /\ UNCHANGED <<lfNodes, lfHead, lfloc, lfSwapRes, lfIns, lfDel, lfSnapKeys, lfRes, memOps>>

\* Swap: m.head = newMT.head; return snapshot
LfSwapHead(t) ==
    /\ lfpc[t] = "swap_head"
    /\ lfNodes' = Append(lfNodes, LfSentinel)
    /\ lfHead' = Len(lfNodes) + 1
    /\ lfSwapRes' = [snapshot |-> lfloc[t].snapshot, alone |-> lfloc[t].alone,
                     n |-> lfSwapRes.n + 1]
    /\ lfSnapKeys' = lfSnapKeys \cup {k \in LfKeys : lfloc[t].snapshot[k] # NoEntry}
    /\ lfpc' = [lfpc EXCEPT ![t] = "idle"]
    /\ UNCHANGED <<lfLength, lfloc, lfIns, lfDel, lfRes, memOps>>

\* ------------------------------------------------------------------------
\* lfMemtable.Delete step by step (lf_wal.go 327-339): find, the CAS on the
\* deleted flag, the decrement of length.  The ld variables record what the
\* Delete calls returned.
\* ------------------------------------------------------------------------
VARIABLES
    ldOk,          \* the target nodes of the Deletes that returned nil, in return order
    ldErr,         \* the target nodes of the Deletes that returned "already deleted"
    ldRaced,       \* the nodes whose flag was set while another Delete held the same target
    ldClean,       \* per thread: no Insert of the key has overlapped the Delete it is in
    ldGone         \* the keys deleted with no Insert of the key invoked since

ldVars == <<ldOk, ldErr, ldRaced, ldClean, ldGone>>

LdInit ==
    /\ ldOk = <<>>
    /\ ldErr = {}
    /\ ldRaced = {}
    /\ ldClean = [t \in LfThreads |-> FALSE]
    /\ ldGone = {}

\* thread u is inside Insert(k)
InInsert(u, k) == lfpc[u] \in {"find", "cas0", "link", "count"} /\ lfloc[u].key = k

\* thread u is inside Delete(k)
InDelete(u, k) == lfpc[u] \in {"d_cas", "d_count"} /\ lfloc[u].key = k

\* a plain store of 1 in place of the compare-and-swap
StoreUint32(cur, old) == TRUE

\* atomic.CompareAndSwapUint32(&target.deleted, old, 1) succeeds
CompareAndSwapUint32(cur, old) == cur = old

\* Insert is called, seen by the Deletes of the same key that are under way
LdInsertCall(t, k, v) ==
    /\ LfInsertCall(t, k, v)
    /\ ldGone' = ldGone \ {k}
    /\ ldClean' = [u \in LfThreads |-> ldClean[u] /\ ~InDelete(u, k)]
    /\ UNCHANGED <<ldOk, ldErr, ldRaced>>

\* Delete: target := m.find(key, &preds, &succs); nil returns "key not found"
LfDeleteFind(t, k) ==
    /\ lfpc[t] = "idle"
    /\ memOps < MaxMemOps
    /\ memOps' = memOps + 1
    /\ lfDel' = lfDel \cup {k}
    /\ LET target == find(lfNodes, lfHead, k).node
       IN /\ lfloc' = LfCallBegins(t, [NoLfCall EXCEPT !.key = k, !.node = target])
          /\ IF target = 0
             THEN /\ lfRes' = [key |-> k, err |-> "key not found"]
                  /\ UNCHANGED lfpc
             ELSE /\ lfpc' = [lfpc EXCEPT ![t] = "d_cas"]
                  /\ UNCHANGED lfRes
    /\ ldClean' = [ldClean EXCEPT ![t] = \A u \in LfThreads : ~InInsert(u, k)]
    /\ UNCHANGED <<lfNodes, lfHead, lfLength, lfSwapRes, lfIns, lfSnapKeys>>
    /\ UNCHANGED <<ldOk, ldErr, ldRaced, ldGone>>

\* Delete: the CAS of target.deleted from 0 to 1; a failure returns
\* "failed to delete: already deleted"
LfDeleteCas(t) ==
    /\ lfpc[t] = "d_cas"
    /\ LET target == lfloc[t].node
       IN IF CompareAndSwapUint32(lfNodes[target].deleted, 0)
          THEN /\ lfNodes' = [lfNodes EXCEPT ![target].deleted = 1]
               /\ lfpc' = [lfpc EXCEPT ![t] = "d_count"]
               /\ ldRaced' = IF \E u \in LfThreads \ {t} :
                                    lfpc[u] = "d_cas" /\ lfloc[u].node = target
                             THEN ldRaced \cup {target} ELSE ldRaced
               /\ UNCHANGED <<lfRes, ldErr>>
          ELSE /\ lfRes' = [key |-> lfloc[t].key, err |-> "already deleted"]
               /\ lfpc' = [lfpc EXCEPT ![t] = "idle"]
               /\ ldErr' = ldErr \cup {target}
               /\ UNCHANGED <<lfNodes, ldRaced>>
    /\ UNCHANGED <<lfHead, lfLength, lfloc, lfSwapRes, lfIns, lfDel, lfSnapKeys, memOps>>
    /\ UNCHANGED <<ldOk, ldClean, ldGone>>

\* Delete: atomic.AddInt64(&m.length, -1); return nil
LfDeleteCount(t) ==
    /\ lfpc[t] = "d_count"
    /\ lfLength' = lfLength - 1
    /\ lfRes' = [key |-> lfloc[t].key, err |-> "ok"]
    /\ lfpc' = [lfpc EXCEPT ![t] = "idle"]
    /\ ldOk' = Append(ldOk, lfloc[t].node)
    /\ ldGone' = IF ldClean[t] THEN ldGone \cup {lfloc[t].key} ELSE ldGone
    /\ UNCHANGED <<lfNodes, lfHead, lfloc, lfSwapRes, lfIns, lfDel, lfSnapKeys, memOps>>
    /\ UNCHANGED <<ldErr, ldRaced, ldClean>>

memVars == <<mtVars, lfVars, memOps, ldVars>>

MemInit == MtInit /\ LfInit /\ memOps = 0 /\ LdInit

\* ========================================================================
\* The WAL file as bytes: the record WAL.worker writes and RecoverFromWAL
\* (part_003, recovery.go).  A byte string is a sequence of runs [b, n],
\* n >= 1 copies of the byte b, no two neighbouring runs of the same byte,
\* so that a key of 65536 bytes is one run.
\* ========================================================================
MaxUint16 == 65535
DefaultMemTableSize == 16 * 1024 * 1024
MaxWalEntries == 2
MaxCutLen == 16

Run(b, n) == IF n = 0 THEN <<>> ELSE <<[b |-> b, n |-> n]>>

RECURSIVE BLen(_)
\* len(s)
BLen(s) == IF s = <<>> THEN 0 ELSE s[1].n + BLen(Tail(s))

\* buf.Write / file.Write: t after s
BCat(s, t) ==
    IF s = <<>> THEN t
    ELSE IF t = <<>> THEN s
    ELSE IF s[Len(s)].b = t[1].b
         THEN SubSeq(s, 1, Len(s) - 1)
                  \o <<[b |-> t[1].b, n |-> s[Len(s)].n + t[1].n]>> \o Tail(t)
         ELSE s \o t

RECURSIVE BTake(_, _)
\* the first n bytes of s
BTake(s, n) ==
    IF n = 0 \/ s = <<>> THEN <<>>
    ELSE IF s[1].n <= n THEN BCat(<<s[1]>>, BTake(Tail(s), n - s[1].n))
    ELSE <<[b |-> s[1].b, n |-> n]>>

RECURSIVE BDrop(_, _)
\* s after its first n bytes: the file position moved on by n
BDrop(s, n) ==
    IF n = 0 \/ s = <<>> THEN s
    ELSE IF s[1].n <= n THEN BDrop(Tail(s), n - s[1].n)
    ELSE <<[b |-> s[1].b, n |-> s[1].n - n]>> \o Tail(s)

\* the conversion uint16(len(...)) of the worker
Uint16(n) == n % (MaxUint16 + 1)

\* binary.Write(buf, binary.BigEndian, uint16)
PutUint16(u) == BCat(Run(u \div 256, 1), Run(u % 256, 1))

\* binary.Read(file, binary.BigEndian, &uint16) on two bytes
GetUint16(s) == BTake(s, 1)[1].b * 256 + BDrop(s, 1)[1].b

KeyA == Run(97, 1)
KeyB == Run(98, 1)
LongKey == Run(97, MaxUint16 + 1)
ValueX == Run(120, 1)
ValueXY == BCat(Run(120, 1), Run(121, 1))

\* the entries LSMTree.Insert and LSMTree.Delete hand to WAL.Append
RcKeys == {KeyA, KeyB, LongKey}
RcValues == {<<>>, ValueX, ValueXY}
WalEntries ==
    {[op |-> OpInsert, key |-> k, value |-> v] : k \in RcKeys, v \in RcValues}
        \cup {[op |-> OpDelete, key |-> k, value |-> <<>>] : k \in RcKeys}

\* the record the worker builds in buf for one entry
WalRecord(entry) ==
    BCat(BCat(BCat(BCat(Run(entry.op, 1),
                        PutUint16(Uint16(BLen(entry.key)))),
                   entry.key),
              PutUint16(Uint16(BLen(entry.value)))),
         entry.value)

\* a MemTable over byte-string keys: data holds one [key, value, tomb] per key
RcNewMemTable == [data |-> {}, size |-> 0, maxSize |-> DefaultMemTableSize]

RcStore(data, key, value, tomb) ==
    {r \in data : r.key # key} \cup {[key |-> key, value |-> value, tomb |-> tomb]}

\* MemTable.Insert
RcMemInsert(mt, key, value) ==
    IF mt.size + BLen(key) + BLen(value) > mt.maxSize THEN mt
    ELSE [mt EXCEPT !.data = RcStore(mt.data, key, value, FALSE),
                    !.size = mt.size + BLen(key) + BLen(value)]

\* MemTable.Delete
RcMemDelete(mt, key) == [mt EXCEPT !.data = RcStore(mt.data, key, <<>>, TRUE)]

\* the error of file.Read, binary.Read and io.ReadFull asked for n bytes
ReadErr(s, n) ==
    IF BLen(s) >= n THEN "nil"
    ELSE IF BLen(s) = 0 THEN "EOF" ELSE "ErrUnexpectedEOF"

EofIsEndOnlyEOF(err) == err = "EOF"
\* err == io.EOF || err == io.ErrUnexpectedEOF: the loop breaks
EofIsEnd(err) == err \in {"EOF", "ErrUnexpectedEOF"}

\* how the loop of RecoverFromWAL ends on a read error
RecoverEnds(err, mt) == [err |-> IF EofIsEnd(err) THEN "nil" ELSE err, mt |-> mt]

\* the last lines of the loop body: the record is applied, the result ignored
RecoverApply(mt, op, key, value) ==
    IF op = OpInsert THEN RcMemInsert(mt, key, value)
    ELSE IF op = OpDelete THEN RcMemDelete(mt, key)
    ELSE mt

RECURSIVE RecoverLoop(_, _)
\* the for loop of RecoverFromWAL on the bytes from the file position on
RecoverLoop(bytes, mt) ==
    IF ReadErr(bytes, 1) # "nil" THEN RecoverEnds(ReadErr(bytes, 1), mt)
    ELSE LET op == bytes[1].b
             r1 == BDrop(bytes, 1)
         IN IF ReadErr(r1, 2) # "nil" THEN RecoverEnds(ReadErr(r1, 2), mt)
            ELSE LET keyLen == GetUint16(r1)
                     r2 == BDrop(r1, 2)
                 IN IF ReadErr(r2, keyLen) # "nil"
                    THEN RecoverEnds(ReadErr(r2, keyLen), mt)
                    ELSE LET r3 == BDrop(r2, keyLen)
                         IN IF ReadErr(r3, 2) # "nil"
                            THEN RecoverEnds(ReadErr(r3, 2), mt)
                            ELSE LET valLen == GetUint16(r3)
                                     r4 == BDrop(r3, 2)
                                 IN IF ReadErr(r4, valLen) # "nil"
                                    THEN RecoverEnds(ReadErr(r4, valLen), mt)
                                    ELSE RecoverLoop(BDrop(r4, valLen),
                                             RecoverApply(mt, op, BTake(r2, keyLen),
                                                          BTake(r4, valLen)))

\* RecoverFromWAL(walPath, memTable) on a file that exists
RecoverFromWALFile(file, mt) ==
    IF BLen(file) = 0 THEN [err |-> "nil", mt |-> mt]
    ELSE RecoverLoop(file, mt)

VARIABLES
    rcEntries,     \* the entries appended to the WAL, in order
    rcFile,        \* the bytes of the WAL file
    rcCut,         \* the length the file was cut to, NoCut when it is whole
    rcRes          \* what RecoverFromWAL returned and the memtable it filled

rcVars == <<rcEntries, rcFile, rcCut, rcRes>>

NoCut == -1
NoRecovery == [err |-> "none", mt |-> RcNewMemTable]

RcInit ==
    /\ rcEntries = <<>>
    /\ rcFile = <<>>
    /\ rcCut = NoCut
    /\ rcRes = NoRecovery

\* WAL.Append(entry) and the worker's write of its record to the file
RcAppend(entry) ==
    /\ rcRes = NoRecovery
    /\ rcCut = NoCut
    /\ Len(rcEntries) < MaxWalEntries
    /\ rcEntries' = Append(rcEntries, entry)
    /\ rcFile' = BCat(rcFile, WalRecord(entry))
    /\ UNCHANGED <<rcCut, rcRes>>

\* the process dies while the worker is writing: the file ends at byte p
RcCutAt(p) ==
    /\ rcRes = NoRecovery
    /\ rcCut = NoCut
    /\ BLen(rcFile) <= MaxCutLen
    /\ p < BLen(rcFile)
    /\ rcFile' = BTake(rcFile, p)
    /\ rcCut' = p
    /\ UNCHANGED <<rcEntries, rcRes>>

\* NewLSMTree: RecoverFromWAL(walPath, mt) into the memtable just built
RcRecover ==
    /\ rcRes = NoRecovery
    /\ rcRes' = RecoverFromWALFile(rcFile, RcNewMemTable)
    /\ UNCHANGED <<rcEntries, rcFile, rcCut>>

\* ========================================================================
\* The WAL as an object: Append called by several goroutines, the worker,
\* Reset (part_003)
\* ========================================================================
WalAppenders == {1, 2}
\* the values each appender logs, in its program order, under its own key
WalScript == <<"v1", "v2">>

VARIABLES
    walAccepted,   \* the entries in the order the channel accepted their sends
    wpc,           \* per appender: its position inside Append
    wnext          \* per appender: how many of its Appends have returned

walObjVars == <<walAccepted, wpc, wnext>>

WalObjInit ==
    /\ walAccepted = <<>>
    /\ wpc = [t \in WalAppenders |-> "idle"]
    /\ wnext = [t \in WalAppenders |-> 0]

\* the entry of appender t's next Append
WalEntryOf(t, i) == [Op |-> OpInsert, Key |-> t, Value |-> WalScript[i]]

ChanSendFront(ch, entry) == <<entry>> \o ch
\* w.walCh <- entry on a channel with room: the entry queues behind the others
ChanSend(ch, entry) == Append(ch, entry)

\* WAL.Append: atomic.AddInt64(&w.entryCount, 1)
WalAppendCount(t) ==
    /\ wpc[t] = "idle"
    /\ wnext[t] < Len(WalScript)
    /\ entryCount' = entryCount + 1
    /\ wpc' = [wpc EXCEPT ![t] = "send"]
    /\ UNCHANGED <<memTable, memSize, walCh, walHeld, walFile, levels, files, cache,
                   pc, pend, closed, last, nOps, opens, sinceOpen>>
    /\ UNCHANGED <<walAccepted, wnext>>

\* WAL.Append: w.walCh <- entry, which blocks while the channel is full, and
\* return nil
WalAppendSend(t) ==
    /\ wpc[t] = "send"
    /\ Len(walCh) < WalChCap
    /\ walCh' = ChanSend(walCh, WalEntryOf(t, wnext[t] + 1))
    /\ walAccepted' = Append(walAccepted, WalEntryOf(t, wnext[t] + 1))
    /\ wnext' = [wnext EXCEPT ![t] = wnext[t] + 1]
    /\ wpc' = [wpc EXCEPT ![t] = "idle"]
    /\ UNCHANGED <<memTable, memSize, walHeld, walFile, entryCount, levels, files,
                   cache, pc, pend, closed, last, nOps, opens, sinceOpen>>

\* WAL.Reset: the file is truncated and the counter set to zero
WalResetCall ==
    /\ walFile' = <<>>
    /\ entryCount' = 0
    /\ UNCHANGED <<memTable, memSize, walCh, walHeld, levels, files, cache,
                   pc, pend, closed, last, nOps, opens, sinceOpen>>
    /\ UNCHANGED walObjVars

\* ========================================================================
\* A flush whose SSTable cannot be built: flushMemTable, CreateSSTable and
\* OpenSSTable on the bytes of the .sst file, NewLSMTree on the directory
\* the failed flush leaves behind (memtable.go, errors.go)
\* ========================================================================
MaxFlushOps == 4

\* what the file system does to the next CreateSSTable: nothing, os.Create
\* fails, the first file.Write fails, or the write of the checksum fails
IoOutcomes == {"ok", "create", "write", "trailer"}

\* the bytes of a key and of a value
KeyBytes(k) == Run(96 + k, 1)
ValueBytes(v) ==
    IF v = "v1" THEN Run(49, 1) ELSE IF v = "v2" THEN Run(50, 1) ELSE Run(118, ValLen(v))

\* binary.Write / binary.Read of a uint32, big endian
PutUint32(u) == BCat(PutUint16(u \div 65536), PutUint16(u % 65536))
GetUint32(s) == GetUint16(s) * 65536 + GetUint16(BDrop(s, 2))

RECURSIVE Checksum(_, _)
\* hasher.Write over the bytes, hasher.Sum32(): a checksum that depends on
\* every byte and its position stands for CRC-32; h is the state of the hasher
Checksum(bytes, h) ==
    IF bytes = <<>> THEN h
    ELSE Checksum(BDrop(bytes, 1), (h * 31 + bytes[1].b + 1) % 65521)

\* the record CreateSSTable writes for one key: [KeyLen][Key][ValLen][Value]
SSTRecord(rec) ==
    BCat(BCat(BCat(PutUint16(Uint16(KeyLen(rec[1]))), KeyBytes(rec[1])),
              PutUint16(Uint16(ValLen(rec[2])))),
         ValueBytes(rec[2]))

RECURSIVE SSTRecords(_)
SSTRecords(recs) ==
    IF recs = <<>> THEN <<>> ELSE BCat(SSTRecord(Head(recs)), SSTRecords(Tail(recs)))

\* CreateSSTable(path, data, ...) under an outcome of the file system: its
\* error, whether the file exists afterwards, and the bytes it holds
CreateSSTableFile(data, io) ==
    LET body == SSTRecords(SortedRecords(data, 1))
    IN IF io = "create" THEN [err |-> "create", created |-> FALSE, bytes |-> <<>>]
       ELSE IF io = "write" THEN [err |-> "write", created |-> TRUE, bytes |-> <<>>]
       ELSE IF io = "trailer" THEN [err |-> "write", created |-> TRUE, bytes |-> body]
       ELSE [err |-> "nil", created |-> TRUE,
             bytes |-> BCat(body, PutUint32(Checksum(body, 0)))]

RECURSIVE OpenSSTableLoop(_, _, _, _)
\* the for loop of OpenSSTable: records are read while the offset is before
\* dataEnd; every read error is returned
OpenSSTableLoop(rest, offset, dataEnd, h) ==
    IF offset >= dataEnd THEN [err |-> "nil", rest |-> rest, h |-> h]
    ELSE IF ReadErr(rest, 2) # "nil" THEN [err |-> ReadErr(rest, 2), rest |-> rest, h |-> h]
    ELSE LET keyLen == GetUint16(rest)
             r2 == BDrop(rest, 2)
         IN IF ReadErr(r2, keyLen) # "nil"
            THEN [err |-> ReadErr(r2, keyLen), rest |-> rest, h |-> h]
            ELSE LET r3 == BDrop(r2, keyLen)
                 IN IF ReadErr(r3, 2) # "nil"
                    THEN [err |-> ReadErr(r3, 2), rest |-> rest, h |-> h]
                    ELSE LET valLen == GetUint16(r3)
                             r4 == BDrop(r3, 2)
                         IN IF ReadErr(r4, valLen) # "nil"
                            THEN [err |-> ReadErr(r4, valLen), rest |-> rest, h |-> h]
                            ELSE OpenSSTableLoop(BDrop(r4, valLen),
                                     offset + 4 + keyLen + valLen, dataEnd,
                                     Checksum(BTake(rest, 4 + keyLen + valLen), h))

\* the error OpenSSTable(path, useBloom) returns for a file with these bytes
OpenSSTableFile(bytes) ==
    LET l == OpenSSTableLoop(bytes, 0, BLen(bytes) - 4, 0)
    IN IF l.err # "nil" THEN l.err
       ELSE IF ReadErr(l.rest, 4) # "nil" THEN ReadErr(l.rest, 4)
       ELSE IF l.h # GetUint32(l.rest) THEN "ErrSSTableCorrupted"
       ELSE "nil"

\* loadSSTables: the first error of OpenSSTable over the .sst files
LoadSSTablesErr(fs) ==
    IF \E n \in 1..Len(fs) : OpenSSTableFile(fs[n]) # "nil"
    THEN OpenSSTableFile(fs[Min({n \in 1..Len(fs) : OpenSSTableFile(fs[n]) # "nil"})])
    ELSE "nil"

VARIABLES
    ffTable,       \* the table of the active memtable
    ffSize,        \* its size
    ffWal,         \* the records of db.wal
    ffFiles,       \* the bytes of the .sst files of the directory, in name order
    ffUp,          \* the store is open in a running process
    ffRes,         \* the last call: its name, its error, its number
    ffFailed,      \* the table that the last flush failed to write, NoMap if none
    ffOps          \* calls so far

ffVars == <<ffTable, ffSize, ffWal, ffFiles, ffUp, ffRes, ffFailed, ffOps>>

FfInit ==
    /\ ffTable = EmptyTable
    /\ ffSize = 0
    /\ ffWal = <<>>
    /\ ffFiles = <<>>
    /\ ffUp = TRUE
    /\ ffRes = [op |-> "open", err |-> "nil", n |-> 0]
    /\ ffFailed = NoMap
    /\ ffOps = 0

\* flushMemTable on a memtable, a WAL the worker has written out and a
\* directory, under an outcome of the file system
FlushMemTable(table, size, wal, fs, io) ==
    IF size = 0
    THEN [err |-> "nil", table |-> table, size |-> size, wal |-> wal, files |-> fs]
    ELSE LET c == CreateSSTableFile(SwapData(table), io)
         IN [err |-> c.err, table |-> EmptyTable, size |-> 0,
             wal |-> IF c.err = "nil" THEN <<>> ELSE wal,
             files |-> IF c.created THEN Append(fs, c.bytes) ELSE fs]

\* LSMTree.Insert, the WAL worker keeping up with the channel
FfInsert(k, v, io) ==
    /\ ffUp
    /\ ffOps < MaxFlushOps
    /\ ffOps' = ffOps + 1
    /\ ffUp' = ffUp
    /\ \E wal \in {Append(ffWal, [Op |-> OpInsert, Key |-> k, Value |-> v])} :
         IF MemInsertOk(ffSize, k, v)
         THEN /\ ffTable' = MemInsertTable(ffTable, k, v)
              /\ ffSize' = ffSize + KeyLen(k) + ValLen(v)
              /\ ffWal' = wal
              /\ ffRes' = [op |-> "insert", err |-> "nil", n |-> ffRes.n + 1]
              /\ ffFailed' = NoMap
              /\ UNCHANGED ffFiles
         ELSE \E f \in {FlushMemTable(ffTable, ffSize, wal, ffFiles, io)} :
              /\ ffWal' = f.wal
              /\ ffFiles' = f.files
              /\ IF f.err # "nil"
                 THEN /\ ffTable' = f.table
                      /\ ffSize' = f.size
                      /\ ffRes' = [op |-> "insert", err |-> f.err, n |-> ffRes.n + 1]
                      /\ ffFailed' = ffTable
                 ELSE /\ ffFailed' = NoMap
                      /\ IF MemInsertOk(f.size, k, v)
                         THEN /\ ffTable' = MemInsertTable(f.table, k, v)
                              /\ ffSize' = f.size + KeyLen(k) + ValLen(v)
                              /\ ffRes' = [op |-> "insert", err |-> "nil",
                                           n |-> ffRes.n + 1]
                         ELSE /\ ffTable' = f.table
                              /\ ffSize' = f.size
                              /\ ffRes' = [op |-> "insert", err |-> "full",
                                           n |-> ffRes.n + 1]

\* LSMTree.Delete
FfDelete(k) ==
    /\ ffUp
    /\ ffOps < MaxFlushOps
    /\ ffOps' = ffOps + 1
    /\ ffWal' = Append(ffWal, [Op |-> OpDelete, Key |-> k, Value |-> ""])
    /\ ffTable' = MemDelete(ffTable, k)
    /\ ffRes' = [op |-> "delete", err |-> "nil", n |-> ffRes.n + 1]
    /\ ffFailed' = NoMap
    /\ UNCHANGED <<ffSize, ffFiles, ffUp>>

\* LSMTree.Close: flushMemTable and, when it returns nil, wal.Close
FfClose(io) ==
    /\ ffUp
    /\ ffOps < MaxFlushOps
    /\ ffOps' = ffOps + 1
    /\ \E f \in {FlushMemTable(ffTable, ffSize, ffWal, ffFiles, io)} :
         /\ ffTable' = f.table
         /\ ffSize' = f.size
         /\ ffWal' = f.wal
         /\ ffFiles' = f.files
         /\ ffRes' = [op |-> "close", err |-> f.err, n |-> ffRes.n + 1]
         /\ ffFailed' = IF f.err # "nil" THEN ffTable ELSE NoMap
         /\ ffUp' = (f.err # "nil")

\* the process ends
FfExit ==
    /\ ffUp
    /\ ffUp' = FALSE
    /\ UNCHANGED <<ffTable, ffSize, ffWal, ffFiles, ffRes, ffFailed, ffOps>>

\* NewLSMTree on the directory: loadSSTables, then RecoverFromWAL into a new
\* memtable; an error of either is returned and no store is opened
FfOpen ==
    /\ ~ffUp
    /\ ffOps < MaxFlushOps
    /\ ffOps' = ffOps + 1
    /\ ffRes' = [op |-> "open", err |-> LoadSSTablesErr(ffFiles), n |-> ffRes.n + 1]
    /\ IF LoadSSTablesErr(ffFiles) # "nil"
       THEN UNCHANGED <<ffTable, ffSize, ffUp, ffFailed>>
       ELSE /\ ffTable' = RecoverFromWAL(ffWal, Len(ffWal)).table
            /\ ffSize' = RecoverFromWAL(ffWal, Len(ffWal)).size
            /\ ffUp' = TRUE
            /\ ffFailed' = NoMap
    /\ UNCHANGED <<ffWal, ffFiles>>

\* ========================================================================
\* LFWAL: the ring-buffer WAL (lf_wal.go), Append, Flush and Reset called by
\* two callers next to the flush worker of StartFlushWorker
\* ========================================================================
LwCapacity == 2
MaxLwCalls == 4

LwCallers == {"c1", "c2"}
LwWorker == "w"
LwThreads == LwCallers \cup {LwWorker}

VARIABLES
    lwHead,        \* LFWAL.head
    lwTail,        \* LFWAL.tail
    lwBuffer,      \* LFWAL.buffer: slot index -> WalEntry
    lwFile,        \* the records written to the file, in order
    lwpc,          \* per thread: its position inside Append, Flush or Reset
    lwloc,         \* per thread: the locals of the call it is in
    lwAcked,       \* the entries whose Append returned nil
    lwRes,         \* the last call that returned: its name, error and number
    lwSeq,         \* per caller: how many Appends it has started
    lwCalls        \* calls so far

lwVars == <<lwHead, lwTail, lwBuffer, lwFile, lwpc, lwloc, lwAcked, lwRes, lwSeq, lwCalls>>

\* the zero value of a slot of make([]WalEntry, capacity)
LwZeroEntry == [Op |-> 0, Key |-> "", Value |-> 0]

NoLwCall == [entry |-> LwZeroEntry, tail |-> 0, head |-> 0, i |-> 0, buf |-> <<>>,
             reset |-> FALSE, alone |-> FALSE]

\* NewLFWAL
LwInit ==
    /\ lwHead = 0
    /\ lwTail = 0
    /\ lwBuffer = [i \in 0..(LwCapacity - 1) |-> LwZeroEntry]
    /\ lwFile = <<>>
    /\ lwpc = [t \in LwThreads |-> "idle"]
    /\ lwloc = [t \in LwThreads |-> NoLwCall]
    /\ lwAcked = {}
    /\ lwRes = [op |-> "none", err |-> "nil", by |-> "", alone |-> FALSE, n |-> 0]
    /\ lwSeq = [t \in LwCallers |-> 0]
    /\ lwCalls = 0

\* the locals when thread t enters a call: the calls in progress no longer
\* run alone
LwCallBegins(t, call) ==
    [u \in LwThreads |->
        IF u = t THEN [call EXCEPT !.alone = \A x \in LwThreads \ {t} : lwpc[x] = "idle"]
        ELSE IF lwpc[u] # "idle" THEN [lwloc[u] EXCEPT !.alone = FALSE]
        ELSE lwloc[u]]

LwReturns(t, op, err) ==
    [op |-> op, err |-> err, by |-> t, alone |-> lwloc[t].alone, n |-> lwRes.n + 1]

\* Append is called (the store is not closed)
LwAppendCall(t) ==
    /\ lwpc[t] = "idle"
    /\ lwCalls < MaxLwCalls
    /\ lwCalls' = lwCalls + 1
    /\ lwSeq' = [lwSeq EXCEPT ![t] = lwSeq[t] + 1]
    /\ lwloc' = LwCallBegins(t, [NoLwCall EXCEPT
                     !.entry = [Op |-> OpInsert, Key |-> t, Value |-> lwSeq[t] + 1]])
    /\ lwpc' = [lwpc EXCEPT ![t] = "a_tail"]
    /\ UNCHANGED <<lwHead, lwTail, lwBuffer, lwFile, lwAcked, lwRes>>

\* Append: tail := w.tail.Load()
LwAppendLoadTail(t) ==
    /\ lwpc[t] = "a_tail"
    /\ lwloc' = [lwloc EXCEPT ![t].tail = lwTail]
    /\ lwpc' = [lwpc EXCEPT ![t] = "a_head"]
    /\ UNCHANGED <<lwHead, lwTail, lwBuffer, lwFile, lwAcked, lwRes, lwSeq, lwCalls>>

\* tail-head >= w.capacity
BufferFull(tail, head) == tail - head >= LwCapacity

\* Append: head := w.head.Load() and the buffer-full test
LwAppendLoadHead(t) ==
    /\ lwpc[t] = "a_head"
    /\ IF BufferFull(lwloc[t].tail, lwHead)
       THEN /\ lwpc' = [lwpc EXCEPT ![t] = "idle"]
            /\ lwRes' = LwReturns(t, "append", "full")
            /\ lwloc' = [lwloc EXCEPT ![t] = NoLwCall]
       ELSE /\ lwpc' = [lwpc EXCEPT ![t] = "a_cas"]
            /\ lwloc' = [lwloc EXCEPT ![t].head = lwHead]
            /\ UNCHANGED lwRes
    /\ UNCHANGED <<lwHead, lwTail, lwBuffer, lwFile, lwAcked, lwSeq, lwCalls>>

\* Append: w.tail.CompareAndSwap(tail, tail+1), and the retry when it fails
LwAppendCas(t) ==
    /\ lwpc[t] = "a_cas"
    /\ IF lwTail = lwloc[t].tail
       THEN /\ lwTail' = lwTail + 1
            /\ lwpc' = [lwpc EXCEPT ![t] = "a_store"]
       ELSE /\ lwpc' = [lwpc EXCEPT ![t] = "a_tail"]
            /\ UNCHANGED lwTail
    /\ UNCHANGED <<lwHead, lwBuffer, lwFile, lwloc, lwAcked, lwRes, lwSeq, lwCalls>>

\* Append: w.buffer[tail % w.capacity] = entry; return nil
LwAppendStore(t) ==
    /\ lwpc[t] = "a_store"
    /\ lwBuffer' = [lwBuffer EXCEPT ![lwloc[t].tail % LwCapacity] = lwloc[t].entry]
    /\ lwAcked' = lwAcked \cup {lwloc[t].entry}
    /\ lwRes' = LwReturns(t, "append", "nil")
    /\ lwloc' = [lwloc EXCEPT ![t] = NoLwCall]
    /\ lwpc' = [lwpc EXCEPT ![t] = "idle"]
    /\ UNCHANGED <<lwHead, lwTail, lwFile, lwSeq, lwCalls>>

\* Flush is called, by itself or as the first statement of Reset
LwFlushCall(t, reset) ==
    /\ lwpc[t] = "idle"
    /\ lwCalls < MaxLwCalls
    /\ lwCalls' = lwCalls + 1
    /\ lwloc' = LwCallBegins(t, [NoLwCall EXCEPT !.reset = reset])
    /\ lwpc' = [lwpc EXCEPT ![t] = "f_head"]
    /\ UNCHANGED <<lwHead, lwTail, lwBuffer, lwFile, lwAcked, lwRes, lwSeq>>

\* Flush: head := w.head.Load()
LwFlushLoadHead(t) ==
    /\ lwpc[t] = "f_head"
    /\ lwloc' = [lwloc EXCEPT ![t].head = lwHead, ![t].i = lwHead]
    /\ lwpc' = [lwpc EXCEPT ![t] = "f_tail"]
    /\ UNCHANGED <<lwHead, lwTail, lwBuffer, lwFile, lwAcked, lwRes, lwSeq, lwCalls>>

\* Flush: tail := w.tail.Load(); count <= 0 returns nil
LwFlushLoadTail(t) ==
    /\ lwpc[t] = "f_tail"
    /\ IF lwTail - lwloc[t].head <= 0
       THEN IF lwloc[t].reset
            THEN /\ lwpc' = [lwpc EXCEPT ![t] = "r_head"]
                 /\ UNCHANGED <<lwRes, lwloc>>
            ELSE /\ lwpc' = [lwpc EXCEPT ![t] = "idle"]
                 /\ lwRes' = LwReturns(t, "flush", "nil")
                 /\ lwloc' = [lwloc EXCEPT ![t] = NoLwCall]
       ELSE /\ lwpc' = [lwpc EXCEPT ![t] = "f_read"]
            /\ lwloc' = [lwloc EXCEPT ![t].tail = lwTail]
            /\ UNCHANGED lwRes
    /\ UNCHANGED <<lwHead, lwTail, lwBuffer, lwFile, lwAcked, lwSeq, lwCalls>>

\* Flush: one turn of the loop, entry := w.buffer[i % w.capacity] encoded into buf
LwFlushRead(t) ==
    /\ lwpc[t] = "f_read"
    /\ lwloc' = [lwloc EXCEPT ![t].buf = Append(lwloc[t].buf, lwBuffer[lwloc[t].i % LwCapacity]),
                              ![t].i = lwloc[t].i + 1]
    /\ lwpc' = [lwpc EXCEPT ![t] = IF lwloc[t].i + 1 < lwloc[t].tail THEN "f_read"
                                     ELSE "f_write"]
    /\ UNCHANGED <<lwHead, lwTail, lwBuffer, lwFile, lwAcked, lwRes, lwSeq, lwCalls>>

\* Flush: w.file.Write(buf.Bytes()) and w.file.Sync()
LwFlushWrite(t) ==
    /\ lwpc[t] = "f_write"
    /\ lwFile' = lwFile \o lwloc[t].buf
    /\ lwpc' = [lwpc EXCEPT ![t] = "f_store"]
    /\ UNCHANGED <<lwHead, lwTail, lwBuffer, lwloc, lwAcked, lwRes, lwSeq, lwCalls>>

\* Flush: w.head.Store(tail); return nil
LwFlushStoreHead(t) ==
    /\ lwpc[t] = "f_store"
    /\ lwHead' = lwloc[t].tail
    /\ IF lwloc[t].reset
       THEN /\ lwpc' = [lwpc EXCEPT ![t] = "r_head"]
            /\ UNCHANGED <<lwRes, lwloc>>
       ELSE /\ lwpc' = [lwpc EXCEPT ![t] = "idle"]
            /\ lwRes' = LwReturns(t, "flush", "nil")
            /\ lwloc' = [lwloc EXCEPT ![t] = NoLwCall]
    /\ UNCHANGED <<lwTail, lwBuffer, lwFile, lwAcked, lwSeq, lwCalls>>

\* Reset after its Flush: w.head.Store(0)
LwResetHead(t) ==
    /\ lwpc[t] = "r_head"
    /\ lwHead' = 0
    /\ lwpc' = [lwpc EXCEPT ![t] = "r_tail"]
    /\ UNCHANGED <<lwTail, lwBuffer, lwFile, lwloc, lwAcked, lwRes, lwSeq, lwCalls>>

\* Reset: w.tail.Store(0); return nil
LwResetTail(t) ==
    /\ lwpc[t] = "r_tail"
    /\ lwTail' = 0
    /\ lwRes' = LwReturns(t, "reset", "nil")
    /\ lwloc' = [lwloc EXCEPT ![t] = NoLwCall]
    /\ lwpc' = [lwpc EXCEPT ![t] = "idle"]
    /\ UNCHANGED <<lwHead, lwBuffer, lwFile, lwAcked, lwSeq, lwCalls>>

\* EntryCount: w.tail.Load() - w.head.Load()
EntryCount == lwTail - lwHead

\* ========================================================================
\* Paged B-tree with its node cache. Nodes are objects of a heap: readNode
\* hands out the cached object itself, so a change made through one reference
\* is seen through every other one. Two instances on two files, one with the
\* cache and one with CacheSize = 0, are given the same calls.
\* ========================================================================
CbNumKeys == 3
MaxCbOps == 6
MaxCacheSize == 2

\* BtConfig.PageSize of both instances: a page that holds one key of 65536
\* bytes and not two
CbPageSize == 131072

CbKeys == 1..CbNumKeys
CbLongKeys == CbKeys \cup {LongBtKey}
CacheSizes == 1..MaxCacheSize

VARIABLES
    CacheSize,     \* BtConfig.CacheSize of the instance with the cache
    cbCached,      \* the instance with the cache: file, fields, heap, cache
    cbPlain,       \* the instance with CacheSize = 0
    cbRes,         \* the last call: its name, key and what either instance returned
    cbOps          \* calls so far

cbVars == <<CacheSize, cbCached, cbPlain, cbRes, cbOps>>

\* the node a failed readNode leaves its caller with: none (object 0 stands
\* for the nil the callers do not look at)
NilNode == [items |-> <<>>, children |-> <<>>, offset |-> 0, elem |-> 0]

\* NewBtree on an empty file: a negative CacheSize counts as 0
NewBtree(cacheSize) ==
    [disk |-> <<>>, hdr |-> [root |-> 0, length |-> 0],
     RootOffset |-> 0, Length |-> 0, nextOffset |-> 1,
     heap |-> (0 :> NilNode), cache |-> <<>>, cacheList |-> <<>>,
     cacheSize |-> IF cacheSize < 0 THEN 0 ELSE cacheSize,
     nid |-> 1, neid |-> 1, err |-> "ok", evicted |-> FALSE]

\* a new Node object on the heap; its identity is b.nid
NewNodeObject(b, items, children, offset) ==
    [b EXCEPT !.heap = (b.nid :> [items |-> items, children |-> children,
                                  offset |-> offset, elem |-> 0]) @@ @,
              !.nid = @ + 1]

\* list.MoveToFront: nothing happens when e is not an element of the list
MoveToFront(list, e) ==
    IF \E i \in 1..Len(list) : list[i].e = e
    THEN LET i == CHOOSE j \in 1..Len(list) : list[j].e = e
         IN <<list[i]>> \o RemoveAt(list, i - 1)
    ELSE list

\* the eviction test of cacheNode, with a limit that is one too high
OverLimitByTwo(len, size) == len > size + 1
\* b.cacheList.Len() > b.cacheSize
OverLimit(len, size) == len > size

\* cacheNode: refresh the entry of n's offset, or push n and evict the oldest
cacheNode(b, n) ==
    IF b.cacheSize <= 0 THEN b
    ELSE LET off == b.heap[n].offset
         IN IF off \in DOMAIN b.cache
            THEN LET cached == b.cache[off]
                 IN [b EXCEPT !.cacheList = IF b.heap[cached].elem # 0
                                            THEN MoveToFront(@, b.heap[cached].elem)
                                            ELSE @,
                              !.cache[off] = n]
            ELSE LET pushed == [b EXCEPT !.cacheList = <<[e |-> b.neid, node |-> n]>> \o @,
                                         !.cache = (off :> n) @@ @,
                                         !.heap[n].elem = b.neid,
                                         !.neid = @ + 1]
                     oldest == pushed.cacheList[Len(pushed.cacheList)]
                     oldOff == pushed.heap[oldest.node].offset
                 IN IF OverLimit(Len(pushed.cacheList), pushed.cacheSize)
                    THEN [pushed EXCEPT
                             !.cache = [o \in DOMAIN pushed.cache \ {oldOff} |-> pushed.cache[o]],
                             !.cacheList = SubSeq(@, 1, Len(@) - 1),
                             !.heap[oldest.node].elem = 0,
                             !.evicted = TRUE]
                    ELSE pushed

\* moveToFront: the LRU position of a cached offset
moveToFront(b, off) ==
    IF off \in DOMAIN b.cache /\ b.heap[b.cache[off]].elem # 0
    THEN [b EXCEPT !.cacheList = MoveToFront(@, b.heap[b.cache[off]].elem)]
    ELSE b

\* the first error of a call is the one it returns
Fail(b, e) == IF b.err # "ok" THEN b ELSE [b EXCEPT !.err = e]

\* writeNodeToDisk's page: every item with its two length fields, uint16 of
\* the lengths, in front of the key and the value, then the children offsets
EncodeNode(node) ==
    [items |-> [i \in 1..Len(node.items) |->
                   [klen |-> Uint16(BtKeyLen(node.items[i].Key)),
                    vlen |-> Uint16(BtValLen(node.items[i].Value)),
                    Key |-> node.items[i].Key, Value |-> node.items[i].Value]],
     children |-> node.children]

\* the child offset read from eight bytes 'a' of a key: no page of the file
GarbageOffset == -1

\* readNodeFromDisk's node. An item whose key length field wrapped to 0 is
\* read as the empty key with the key's bytes taken for the value length and
\* the value, and the children offsets are then read from key bytes as well.
\* (Such a key is the greatest one and two of them exceed the page, so the
\* item is the last of its node.)
DecodeNode(page) ==
    LET wrapped(i) == page.items[i].klen # BtKeyLen(page.items[i].Key)
    IN [items |-> [i \in 1..Len(page.items) |->
                      IF wrapped(i) THEN [Key |-> EmptyKey, Value |-> KeyBytesValue]
                      ELSE [Key |-> page.items[i].Key, Value |-> page.items[i].Value]],
        children |-> IF \E i \in 1..Len(page.items) : wrapped(i)
                     THEN [i \in 1..Len(page.children) |-> GarbageOffset]
                     ELSE page.children]

\* readNode: the cached object, or a new object decoded from the page; a read
\* at an offset outside the file fails
readNodeC(b, off) ==
    IF b.err # "ok" THEN [b |-> b, n |-> 0]
    ELSE IF b.cacheSize > 0 /\ off \in DOMAIN b.cache
    THEN [b |-> moveToFront(b, off), n |-> b.cache[off]]
    ELSE IF off \notin DOMAIN b.disk THEN [b |-> [b EXCEPT !.err = "io"], n |-> 0]
    ELSE LET node == DecodeNode(b.disk[off])
             rd == NewNodeObject(b, node.items, node.children, off)
         IN [b |-> IF b.cacheSize > 0 THEN cacheNode(rd, b.nid) ELSE rd, n |-> b.nid]

\* writeNode: the page is written unless it exceeds the page size, the object
\* takes the offset, and the cache entry is refreshed
writeNodeC(b, n, off) ==
    IF b.err # "ok" THEN b
    ELSE IF NodeBytes(b.heap[n]) > CbPageSize THEN [b EXCEPT !.err = "overflow"]
    ELSE LET wr == [b EXCEPT !.disk = (off :> EncodeNode(b.heap[n])) @@ @,
                             !.heap[n].offset = off]
         IN IF b.cacheSize > 0 THEN cacheNode(wr, n) ELSE wr

\* saveHeader on the instance
saveHeaderC(b) == [b EXCEPT !.hdr = saveHeader(@, b.RootOffset, b.Length)]

\* Op applied to the value of v, which is computed once
With(v, Op(_)) == CHOOSE y \in {Op(w) : w \in {v}} : TRUE

\* splitChild, the objects changed in memory: z is the new object b.nid
splitChildNodes(b, parent, index, child) ==
    LET t == Degree
        c == b.heap[child]
        zOffset == b.nextOffset
    IN [NewNodeObject(b, SubSeq(c.items, t + 1, Len(c.items)),
                      IF ~isLeaf(c) THEN SubSeq(c.children, t + 1, Len(c.children))
                      ELSE <<>>,
                      zOffset)
        EXCEPT !.nextOffset = @ + 1,
               !.heap[child].items = SubSeq(c.items, 1, t - 1),
               !.heap[child].children = IF ~isLeaf(c) THEN SubSeq(c.children, 1, t)
                                        ELSE c.children,
               !.heap[parent].children = InsertAt(@, index + 1, zOffset),
               !.heap[parent].items = InsertAt(@, index, c.items[t])]

\* splitChild on the objects parent and child: child, z and parent are written
splitChildC(b, parent, index, child) ==
    With(splitChildNodes(b, parent, index, child), LAMBDA b3 :
        writeNodeC(writeNodeC(writeNodeC(b3, child, b3.heap[child].offset),
                              b.nid, b.nextOffset),
                   parent, b3.heap[parent].offset))

RECURSIVE insertNonFullC(_, _, _, _)
\* insertNonFull on the object n
insertNonFullC(b, n, key, value) ==
    IF b.err # "ok" THEN b
    ELSE IF isLeaf(b.heap[n])
    THEN writeNodeC([b EXCEPT !.heap[n].items =
                         InsertAt(@, ScanDown(@, key), [Key |-> key, Value |-> value])],
                    n, b.heap[n].offset)
    ELSE With(ScanDown(b.heap[n].items, key), LAMBDA i :
         With(readNodeC(b, b.heap[n].children[i + 1]), LAMBDA rd :
            IF rd.b.err # "ok" THEN rd.b
            ELSE IF IsFull(rd.b.heap[rd.n])
            THEN With(splitChildC(rd.b, n, i, rd.n), LAMBDA sp :
                    IF sp.err # "ok" THEN sp
                    ELSE With(readNodeC(sp, sp.heap[n].children[
                                  (IF key > sp.heap[n].items[i + 1].Key THEN i + 1 ELSE i) + 1]),
                              LAMBDA rd2 : insertNonFullC(rd2.b, rd2.n, key, value)))
            ELSE insertNonFullC(rd.b, rd.n, key, value)))

\* Insert on a full root: the new root object b.nid takes the old root as its
\* child, which is split
InsertSplitRoot(b, root, key, value) ==
    With([NewNodeObject(b, <<>>, <<b.heap[root].offset>>, b.nextOffset)
          EXCEPT !.nextOffset = @ + 1], LAMBDA b1 :
    With(splitChildC(b1, b.nid, 0, root), LAMBDA sp :
    With(insertNonFullC(sp, b.nid, key, value), LAMBDA r :
    With(writeNodeC(r, b.nid, b.nextOffset), LAMBDA w :
        IF w.err # "ok" THEN w
        ELSE saveHeaderC([cacheNode([w EXCEPT !.RootOffset = b.nextOffset], b.nid)
                          EXCEPT !.Length = @ + 1])))))

\* Btree.Insert on the instance b
InsertOn(b, key, value) ==
    IF b.Length = 0
    THEN With(writeNodeC([NewNodeObject(b, <<[Key |-> key, Value |-> value]>>, <<>>,
                                        b.nextOffset)
                          EXCEPT !.nextOffset = @ + 1], b.nid, b.nextOffset), LAMBDA w :
            IF w.err # "ok" THEN w
            ELSE cacheNode(saveHeaderC([w EXCEPT !.RootOffset = b.nextOffset,
                                                 !.Length = @ + 1]), b.nid))
    ELSE With(readNodeC(b, b.RootOffset), LAMBDA rd :
            IF rd.b.err # "ok" THEN rd.b
            ELSE IF IsFull(rd.b.heap[rd.n])
            THEN InsertSplitRoot(rd.b, rd.n, key, value)
            ELSE With(insertNonFullC(rd.b, rd.n, key, value), LAMBDA r :
                    IF r.err # "ok" THEN r
                    ELSE saveHeaderC([r EXCEPT !.Length = @ + 1])))

RECURSIVE searchValueC(_, _, _)
\* searchValue on the instance b: the value, the error and the cache it leaves
searchValueC(b, off, key) ==
    With(readNodeC(b, off), LAMBDA rd :
        LET n == rd.b.heap[rd.n]
            i == ScanUp(n.items, key)
        IN IF rd.b.err # "ok" THEN [b |-> rd.b, value |-> "", err |-> rd.b.err]
           ELSE IF i < Len(n.items) /\ key = n.items[i + 1].Key
           THEN [b |-> rd.b, value |-> n.items[i + 1].Value, err |-> "ok"]
           ELSE IF isLeaf(n) THEN [b |-> rd.b, value |-> "", err |-> ErrorfKeyNotFound]
           ELSE IF i >= Len(n.children) THEN [b |-> rd.b, value |-> "", err |-> "panic"]
           ELSE searchValueC(rd.b, n.children[i + 1], key))

\* Btree.Get on the instance b
GetFrom(b, key) ==
    IF b.Length = 0 THEN [b |-> b, value |-> "", err |-> ErrKeyNotFound]
    ELSE searchValueC(b, b.RootOffset, key)

RECURSIVE getPredecessorC(_, _)
\* getPredecessor from the object n
getPredecessorC(b, n) ==
    IF ~isLeaf(b.heap[n])
    THEN With(readNodeC(b, b.heap[n].children[Len(b.heap[n].children)]), LAMBDA rd :
            getPredecessorC(rd.b, rd.n))
    ELSE IF Len(b.heap[n].items) = 0
    THEN [b |-> Fail(b, "panic"), item |-> [Key |-> 0, Value |-> ""]]
    ELSE [b |-> b, item |-> b.heap[n].items[Len(b.heap[n].items)]]

RECURSIVE getSuccessorC(_, _)
\* getSuccessor from the object n
getSuccessorC(b, n) ==
    IF ~isLeaf(b.heap[n])
    THEN With(readNodeC(b, b.heap[n].children[1]), LAMBDA rd :
            getSuccessorC(rd.b, rd.n))
    ELSE IF Len(b.heap[n].items) = 0
    THEN [b |-> Fail(b, "panic"), item |-> [Key |-> 0, Value |-> ""]]
    ELSE [b |-> b, item |-> b.heap[n].items[1]]

\* mergeNodes once left and right have been read
mergeNodesRead(b, parent, idx, left, right) ==
    LET h == b.heap
    IN IF b.err # "ok" THEN b
       ELSE IF idx >= Len(h[parent].items) THEN Fail(b, "panic")
       ELSE With([b EXCEPT
                     !.heap[left].items = @ \o <<h[parent].items[idx + 1]>> \o h[right].items,
                     !.heap[left].children = IF ~isLeaf(h[left])
                                             THEN @ \o h[right].children ELSE @,
                     !.heap[parent].items = RemoveAt(@, idx),
                     !.heap[parent].children = RemoveAt(@, idx + 1)], LAMBDA b2 :
               writeNodeC(writeNodeC(b2, left, b2.heap[left].offset),
                          parent, b2.heap[parent].offset))

\* mergeNodes on the object parent
mergeNodesC(b, parent, idx) ==
    IF idx + 1 >= Len(b.heap[parent].children) THEN Fail(b, "panic")
    ELSE With(readNodeC(b, b.heap[parent].children[idx + 1]), LAMBDA rl :
         With(readNodeC(rl.b, b.heap[parent].children[idx + 2]), LAMBDA rr :
            mergeNodesRead(rr.b, parent, idx, rl.n, rr.n)))

\* borrowFromPrev once child and leftSibling have been read
borrowFromPrevRead(b, parent, idx, child, leftSibling) ==
    LET h == b.heap
    IN IF b.err # "ok" THEN b
       ELSE IF idx - 1 >= Len(h[parent].items) \/ Len(h[leftSibling].items) = 0
               \/ (~isLeaf(h[child]) /\ Len(h[leftSibling].children) = 0)
       THEN Fail(b, "panic")
       ELSE With([b EXCEPT
                     !.heap[child].items = <<h[parent].items[idx]>> \o @,
                     !.heap[child].children =
                         IF ~isLeaf(h[child])
                         THEN <<h[leftSibling].children[Len(h[leftSibling].children)]>> \o @
                         ELSE @,
                     !.heap[leftSibling].children =
                         IF ~isLeaf(h[child]) THEN SubSeq(@, 1, Len(@) - 1) ELSE @,
                     !.heap[parent].items[idx] = h[leftSibling].items[Len(h[leftSibling].items)],
                     !.heap[leftSibling].items = SubSeq(@, 1, Len(@) - 1)], LAMBDA b4 :
               writeNodeC(writeNodeC(writeNodeC(b4, child, b4.heap[child].offset),
                                     leftSibling, b4.heap[leftSibling].offset),
                          parent, b4.heap[parent].offset))

\* borrowFromPrev on the object parent
borrowFromPrevC(b, parent, idx) ==
    With(readNodeC(b, b.heap[parent].children[idx + 1]), LAMBDA rc :
    With(readNodeC(rc.b, b.heap[parent].children[idx]), LAMBDA rl :
        borrowFromPrevRead(rl.b, parent, idx, rc.n, rl.n)))

\* borrowFromNext once child and rightSibling have been read
borrowFromNextRead(b, parent, idx, child, rightSibling) ==
    LET h == b.heap
    IN IF b.err # "ok" THEN b
       ELSE IF idx >= Len(h[parent].items) \/ Len(h[rightSibling].items) = 0
               \/ (~isLeaf(h[child]) /\ Len(h[rightSibling].children) = 0)
       THEN Fail(b, "panic")
       ELSE With([b EXCEPT
                     !.heap[child].items = @ \o <<h[parent].items[idx + 1]>>,
                     !.heap[child].children =
                         IF ~isLeaf(h[child]) THEN @ \o <<h[rightSibling].children[1]>> ELSE @,
                     !.heap[rightSibling].children = IF ~isLeaf(h[child]) THEN Tail(@) ELSE @,
                     !.heap[parent].items[idx + 1] = h[rightSibling].items[1],
                     !.heap[rightSibling].items = Tail(@)], LAMBDA b4 :
               writeNodeC(writeNodeC(writeNodeC(b4, child, b4.heap[child].offset),
                                     rightSibling, b4.heap[rightSibling].offset),
                          parent, b4.heap[parent].offset))

\* borrowFromNext on the object parent
borrowFromNextC(b, parent, idx) ==
    With(readNodeC(b, b.heap[parent].children[idx + 1]), LAMBDA rc :
    With(readNodeC(rc.b, b.heap[parent].children[idx + 2]), LAMBDA rr :
        borrowFromNextRead(rr.b, parent, idx, rc.n, rr.n)))

\* a sibling that could not be read is passed over: `err == nil && ...`
ErrIgnored(b) == [b EXCEPT !.err = "ok"]

\* fill after the reads of the child and of the left sibling (rl)
fillRight(rl, b, parent, idx) ==
    LET p == b.heap[parent]
        hasRight == idx < Len(p.children) - 1
    IN IF idx > 0 /\ rl.b.err = "ok" /\ Len(rl.b.heap[rl.n].items) >= Degree
       THEN borrowFromPrevC(rl.b, parent, idx)
       ELSE With(IF hasRight THEN readNodeC(b, p.children[idx + 2]) ELSE [b |-> b, n |-> 0],
                 LAMBDA rr :
               IF hasRight /\ rr.b.err = "ok" /\ Len(rr.b.heap[rr.n].items) >= Degree
               THEN borrowFromNextC(rr.b, parent, idx)
               ELSE IF idx > 0 THEN mergeNodesC(ErrIgnored(rr.b), parent, idx - 1)
               ELSE mergeNodesC(ErrIgnored(rr.b), parent, idx))

\* fill on the object parent: the child is read first, then the siblings
fillC(b, parent, idx) ==
    With(readNodeC(b, b.heap[parent].children[idx + 1]), LAMBDA r0 :
        IF r0.b.err # "ok" THEN r0.b
        ELSE With(IF idx > 0 THEN readNodeC(r0.b, b.heap[parent].children[idx])
                  ELSE [b |-> r0.b, n |-> 0], LAMBDA rl :
                fillRight(rl, ErrIgnored(rl.b), parent, idx)))

RECURSIVE deleteFromNodeC(_, _, _)
\* deleteFromNode, the key found in the internal node n at idx
deleteInternal(b, n, idx, key) ==
    LET node == b.heap[n]
        leftOffset == node.children[idx + 1]
        rightOffset == node.children[idx + 2]
    IN With(readNodeC(b, leftOffset), LAMBDA rl :
        IF rl.b.err # "ok" THEN rl.b
        ELSE IF Len(rl.b.heap[rl.n].items) >= Degree
        THEN With(getPredecessorC(rl.b, rl.n), LAMBDA pred :
                IF pred.b.err # "ok" THEN pred.b
                ELSE With(writeNodeC([pred.b EXCEPT !.heap[n].items[idx + 1] = pred.item],
                                     n, pred.b.heap[n].offset), LAMBDA w :
                        IF w.err # "ok" THEN w
                        ELSE deleteFromNodeC(w, leftOffset, pred.item.Key)))
        ELSE With(readNodeC(rl.b, rightOffset), LAMBDA rr :
                IF rr.b.err # "ok" THEN rr.b
                ELSE IF Len(rr.b.heap[rr.n].items) >= Degree
                THEN With(getSuccessorC(rr.b, rr.n), LAMBDA succ :
                        IF succ.b.err # "ok" THEN succ.b
                        ELSE With(writeNodeC([succ.b EXCEPT
                                                 !.heap[n].items[idx + 1] = succ.item],
                                             n, succ.b.heap[n].offset), LAMBDA w :
                                IF w.err # "ok" THEN w
                                ELSE deleteFromNodeC(w, rightOffset, succ.item.Key)))
                ELSE With(mergeNodesC(rr.b, n, idx), LAMBDA m :
                        IF m.err # "ok" THEN m
                        ELSE deleteFromNodeC(m, leftOffset, key))))

\* deleteFromNode, the key not in the internal node n: the descent into child idx
deleteDescend(b, n, idx, key) ==
    With(readNodeC(b, b.heap[n].children[idx + 1]), LAMBDA rc :
        IF rc.b.err # "ok" THEN rc.b
        ELSE IF Len(rc.b.heap[rc.n].items) < Degree
        THEN With(fillC(rc.b, n, idx), LAMBDA f :
                IF f.err # "ok" THEN f
                ELSE With(readNodeC(f, f.heap[n].offset), LAMBDA rn :
                        IF rn.b.err # "ok" THEN rn.b
                        ELSE IF idx >= Len(rn.b.heap[rn.n].children) THEN Fail(rn.b, "panic")
                        ELSE deleteFromNodeC(rn.b, rn.b.heap[rn.n].children[idx + 1], key)))
        ELSE deleteFromNodeC(rc.b, b.heap[n].children[idx + 1], key))

\* deleteFromNode on the instance b
deleteFromNodeC(b, off, key) ==
    With(readNodeC(b, off), LAMBDA rd :
        LET n == rd.n
            node == rd.b.heap[n]
            idx == ScanUp(node.items, key)
        IN IF rd.b.err # "ok" THEN rd.b
           ELSE IF idx < Len(node.items) /\ key = node.items[idx + 1].Key
           THEN IF isLeaf(node)
                THEN writeNodeC([rd.b EXCEPT !.heap[n].items = RemoveAt(@, idx)], n, off)
                ELSE IF idx + 1 >= Len(node.children) THEN Fail(rd.b, "panic")
                ELSE deleteInternal(rd.b, n, idx, key)
           ELSE IF isLeaf(node) THEN Fail(rd.b, ErrorfKeyNotFound)
           ELSE IF idx >= Len(node.children) THEN Fail(rd.b, "panic")
           ELSE deleteDescend(rd.b, n, idx, key))

\* Btree.Delete on the instance b
DeleteOn(b, key) ==
    IF b.Length = 0 THEN [b EXCEPT !.err = ErrKeyNotFound]
    ELSE With(deleteFromNodeC(b, b.RootOffset, key), LAMBDA r :
            IF r.err # "ok" THEN r
            ELSE With(readNodeC(r, r.RootOffset), LAMBDA rd :
                    LET root == rd.b.heap[rd.n]
                    IN IF rd.b.err # "ok" THEN rd.b
                       ELSE saveHeaderC([(IF Len(root.items) = 0 /\ ~isLeaf(root)
                                          THEN cacheNode([rd.b EXCEPT
                                                             !.RootOffset = root.children[1]],
                                                         rd.n)
                                          ELSE rd.b)
                                         EXCEPT !.Length = @ - 1])))

\* the instance between two calls: the objects no cache entry refers to are
\* gone, and the error of the call has been returned
Returned(b) ==
    LET live == {b.cache[o] : o \in DOMAIN b.cache}
                    \cup {b.cacheList[i].node : i \in 1..Len(b.cacheList)}
        elems == {b.cacheList[i].e : i \in 1..Len(b.cacheList)}
    IN [b EXCEPT !.heap = [i \in live \cup {0} |-> IF i = 0 THEN NilNode ELSE b.heap[i]],
                 !.nid = Max(live \cup {0}) + 1,
                 !.neid = Max(elems \cup {0}) + 1,
                 !.err = IF @ = "panic" THEN @ ELSE "ok"]

CbInit ==
    /\ cbCached = NewBtree(CacheSize)
    /\ cbPlain = NewBtree(0)
    /\ cbRes = [op |-> "none", key |-> 0, plain |-> [err |-> "ok", value |-> ""],
                cached |-> [err |-> "ok", value |-> ""], failed |-> FALSE, n |-> 0]
    /\ cbOps = 0

\* some call so far has returned an I/O or page-overflow error on one of the
\* instances
IoFailed(perr, cerr) ==
    cbRes.failed \/ perr \in {"io", "overflow"} \/ cerr \in {"io", "overflow"}

\* both instances are open: neither call has panicked
CbOpen ==
    /\ cbPlain.err # "panic"
    /\ cbCached.err # "panic"
    /\ cbOps < MaxCbOps

\* Insert(k, v) on both instances
CbInsert(k, v) ==
    \E p \in {InsertOn(cbPlain, k, v)} : \E c \in {InsertOn([cbCached EXCEPT !.evicted = FALSE], k, v)} :
       /\ CbOpen
       /\ cbOps' = cbOps + 1
       /\ cbPlain' = Returned(p)
       /\ cbCached' = Returned(c)
       /\ cbRes' = [op |-> "insert", key |-> k, plain |-> [err |-> p.err, value |-> ""],
                    cached |-> [err |-> c.err, value |-> ""],
                    failed |-> IoFailed(p.err, c.err), n |-> cbRes.n + 1]
       /\ UNCHANGED CacheSize

\* Delete(k) on both instances
CbDelete(k) ==
    \E p \in {DeleteOn(cbPlain, k)} : \E c \in {DeleteOn([cbCached EXCEPT !.evicted = FALSE], k)} :
       /\ CbOpen
       /\ cbOps' = cbOps + 1
       /\ cbPlain' = Returned(p)
       /\ cbCached' = Returned(c)
       /\ cbRes' = [op |-> "delete", key |-> k, plain |-> [err |-> p.err, value |-> ""],
                    cached |-> [err |-> c.err, value |-> ""],
                    failed |-> IoFailed(p.err, c.err), n |-> cbRes.n + 1]
       /\ UNCHANGED CacheSize

\* Get(k) on both instances
CbGet(k) ==
    \E p \in {GetFrom(cbPlain, k)} : \E c \in {GetFrom([cbCached EXCEPT !.evicted = FALSE], k)} :
       /\ CbOpen
       /\ cbOps' = cbOps + 1
       /\ cbPlain' = Returned([p.b EXCEPT !.err = p.err])
       /\ cbCached' = Returned([c.b EXCEPT !.err = c.err])
       /\ cbRes' = [op |-> "get", key |-> k, plain |-> [err |-> p.err, value |-> p.value],
                    cached |-> [err |-> c.err, value |-> c.value],
                    failed |-> IoFailed(p.err, c.err), n |-> cbRes.n + 1]
       /\ UNCHANGED CacheSize

\* ========================================================================
\* The locks of the LSM backend (memtable.go, compaction.go, part_003): the
\* calls of LSMTree, the compactor goroutine and the WAL worker step by step
\* at every lock, channel and wait-group operation.  The data is reduced to
\* what decides the control flow: the size of each memtable object in
\* entries and the number of entries in the WAL channel.
\* ========================================================================
MaxLkOps == 2
MaxTicks == 1
LkMemCap == 1
LkChCap == 1

LkCallers == {"g1", "g2"}
LkCloser == "cl"
LkCompactor == "cp"
LkWorker == "ww"
LkProcs == LkCallers \cup {LkCloser, LkCompactor, LkWorker}

VARIABLES
    lk,         \* the shared state: locks, channels, memtable objects, counters
    lkpc,       \* goroutine -> the statement it executes next
    lkloc       \* goroutine -> the call it is in and its locals

lkVars == <<lk, lkpc, lkloc>>

NoLkLocals == [op |-> "none", mt |-> 0, retry |-> FALSE, full |-> FALSE]

\* NewLSMTree: the locks free, one empty memtable, the WAL open with its
\* worker started, the compactor goroutine started
LkInit ==
    /\ lk = [mu |-> [w |-> "free", r |-> {}],
             flushMu |-> "free",
             cMu |-> "free",
             wMu |-> "free",
             mtMu |-> <<"free">>,
             mtSize |-> <<0>>,
             ptr |-> 1,
             ch |-> 0,
             chClosed |-> FALSE,
             stop |-> FALSE,
             fileOpen |-> TRUE,
             panic |-> FALSE,
             closeCalled |-> FALSE,
             ops |-> 0,
             ticks |-> 0]
    /\ lkpc = [p \in LkProcs |->
                  IF p = LkCompactor THEN "cp_select"
                  ELSE IF p = LkWorker THEN "ww_recv" ELSE "idle"]
    /\ lkloc = [p \in LkProcs |-> NoLkLocals]

\* goroutine p is about to execute the statement at label; a panic has ended
\* the process for every goroutine
LkAt(p, label) == ~lk.panic /\ lkpc[p] = label

LkGoto(p, label) == lkpc' = [lkpc EXCEPT ![p] = label]

\* the call of p returns
LkReturn(p) ==
    /\ lkpc' = [lkpc EXCEPT ![p] = IF p = LkCloser THEN "done" ELSE "idle"]
    /\ lkloc' = [lkloc EXCEPT ![p] = NoLkLocals]

\* the first statement of each method of LSMTree
LkEntry(op) ==
    IF op = "insert" THEN "i_append"
    ELSE IF op = "delete" THEN "d_append"
    ELSE IF op = "get" THEN "g_load"
    ELSE "fc_load"

\* Insert, Delete, Get or ForceCompaction is invoked, before Close is
LkCall(g, op) ==
    /\ g \in LkCallers
    /\ LkAt(g, "idle")
    /\ ~lk.closeCalled
    /\ lk.ops < MaxLkOps
    /\ lk' = [lk EXCEPT !.ops = @ + 1]
    /\ LkGoto(g, LkEntry(op))
    /\ lkloc' = [lkloc EXCEPT ![g] = [NoLkLocals EXCEPT !.op = op]]

\* WAL.Append: w.walCh <- entry; the send blocks while the channel is full
\* and panics once the channel is closed
LkAppend(g) ==
    /\ LkAt(g, "i_append") \/ LkAt(g, "d_append")
    /\ IF lk.chClosed
       THEN /\ lk' = [lk EXCEPT !.panic = TRUE]
            /\ LkGoto(g, "panic")
       ELSE /\ lk.ch < LkChCap
            /\ lk' = [lk EXCEPT !.ch = @ + 1]
            /\ LkGoto(g, IF lkpc[g] = "i_append" THEN "i_load" ELSE "d_store")
    /\ UNCHANGED lkloc

\* Insert: mt := l.memTable.Load()
LkInsertLoad(g) ==
    /\ LkAt(g, "i_load")
    /\ lkloc' = [lkloc EXCEPT ![g].mt = lk.ptr]
    /\ LkGoto(g, "i_rlock")
    /\ UNCHANGED lk

\* Insert: l.mu.RLock()
LkInsertRLock(g) ==
    /\ LkAt(g, "i_rlock")
    /\ lk.mu.w = "free"
    /\ lk' = [lk EXCEPT !.mu.r = @ \cup {g}]
    /\ LkGoto(g, "i_mt_lock")
    /\ UNCHANGED lkloc

\* MemTable.Insert: m.mu.Lock()
LkInsertMtLock(g) ==
    /\ LkAt(g, "i_mt_lock")
    /\ lk.mtMu[lkloc[g].mt] = "free"
    /\ lk' = [lk EXCEPT !.mtMu[lkloc[g].mt] = g]
    /\ LkGoto(g, "i_mt")
    /\ UNCHANGED lkloc

\* MemTable.Insert: the size test, the store and the deferred m.mu.Unlock()
LkInsertStore(g) ==
    /\ LkAt(g, "i_mt")
    /\ LET m == lkloc[g].mt
           fits == lk.mtSize[m] < LkMemCap
       IN /\ lk' = [lk EXCEPT !.mtMu[m] = "free",
                              !.mtSize[m] = IF fits THEN @ + 1 ELSE @]
          /\ lkloc' = [lkloc EXCEPT ![g].full = ~fits]
    /\ LkGoto(g, "i_runlock")

\* Insert: l.mu.RUnlock(), then the return or, on the first ErrMemTableFull,
\* the call of flushMemTable
LkInsertRUnlock(g) ==
    /\ LkAt(g, "i_runlock")
    /\ lk' = [lk EXCEPT !.mu.r = @ \ {g}]
    /\ IF lkloc[g].full /\ ~lkloc[g].retry
       THEN LkGoto(g, "f_lock") /\ UNCHANGED lkloc
       ELSE LkReturn(g)

\* Delete: mt := l.memTable.Load(); mt.Delete(key) takes no lock
LkDeleteStore(g) ==
    /\ LkAt(g, "d_store")
    /\ LkReturn(g)
    /\ UNCHANGED lk

\* Get: the memtable and the block cache are read with none of these locks; a
\* hit returns, a miss goes on to the levels
LkGetLoad(g, hit) ==
    /\ LkAt(g, "g_load")
    /\ hit => lk.mtSize[lk.ptr] > 0
    /\ IF hit THEN LkReturn(g) ELSE LkGoto(g, "g_rlock") /\ UNCHANGED lkloc
    /\ UNCHANGED lk

\* Get: l.mu.RLock()
LkGetRLock(g) ==
    /\ LkAt(g, "g_rlock")
    /\ lk.mu.w = "free"
    /\ lk' = [lk EXCEPT !.mu.r = @ \cup {g}]
    /\ LkGoto(g, "g_search")
    /\ UNCHANGED lkloc

\* Get: the search of the levels and the deferred l.mu.RUnlock()
LkGetRUnlock(g) ==
    /\ LkAt(g, "g_search")
    /\ lk' = [lk EXCEPT !.mu.r = @ \ {g}]
    /\ LkReturn(g)

\* ForceCompaction: mt := l.memTable.Load(); mt.Size() locks m.mu
LkForceLoad(g) ==
    /\ LkAt(g, "fc_load")
    /\ lk.mtMu[lk.ptr] = "free"
    /\ lk' = [lk EXCEPT !.mtMu[lk.ptr] = g]
    /\ lkloc' = [lkloc EXCEPT ![g].mt = lk.ptr]
    /\ LkGoto(g, "fc_size")

\* ForceCompaction: Size() returns; a memtable that is not empty is flushed
LkForceSize(g) ==
    /\ LkAt(g, "fc_size")
    /\ lk' = [lk EXCEPT !.mtMu[lkloc[g].mt] = "free"]
    /\ LkGoto(g, IF lk.mtSize[lkloc[g].mt] > 0 THEN "f_lock" ELSE "c_lock")
    /\ UNCHANGED lkloc

\* flushMemTable: l.flushMu.Lock()
LkFlushLock(p) ==
    /\ LkAt(p, "f_lock")
    /\ lk.flushMu = "free"
    /\ lk' = [lk EXCEPT !.flushMu = p]
    /\ LkGoto(p, "f_mu")
    /\ UNCHANGED lkloc

\* flushMemTable: l.mu.Lock()
LkFlushMuLock(p) ==
    /\ LkAt(p, "f_mu")
    /\ lk.mu.w = "free" /\ lk.mu.r = {}
    /\ lk' = [lk EXCEPT !.mu.w = p]
    /\ LkGoto(p, "f_size_lock")
    /\ UNCHANGED lkloc

\* flushMemTable: oldMT := l.memTable.Load(); oldMT.Size() locks m.mu
LkFlushSizeLock(p) ==
    /\ LkAt(p, "f_size_lock")
    /\ lk.mtMu[lk.ptr] = "free"
    /\ lk' = [lk EXCEPT !.mtMu[lk.ptr] = p]
    /\ lkloc' = [lkloc EXCEPT ![p].mt = lk.ptr]
    /\ LkGoto(p, "f_size")

\* where the caller of flushMemTable goes on when it returns nil (ok) or an error
LkAfterFlush(p, ok) ==
    IF ~ok THEN LkReturn(p)
    ELSE IF lkloc[p].op = "insert"
    THEN LkGoto(p, "i_load") /\ lkloc' = [lkloc EXCEPT ![p].retry = TRUE]
    ELSE IF lkloc[p].op = "force"
    THEN LkGoto(p, "c_lock") /\ UNCHANGED lkloc
    ELSE LkGoto(p, "wc_close") /\ UNCHANGED lkloc

\* flushMemTable: Size() returns; with an empty memtable l.mu and l.flushMu
\* are released and the call returns nil
LkFlushSize(p) ==
    /\ LkAt(p, "f_size")
    /\ IF lk.mtSize[lkloc[p].mt] = 0
       THEN /\ lk' = [lk EXCEPT !.mtMu[lkloc[p].mt] = "free", !.mu.w = "free",
                                !.flushMu = "free"]
            /\ LkAfterFlush(p, TRUE)
       ELSE /\ lk' = [lk EXCEPT !.mtMu[lkloc[p].mt] = "free"]
            /\ LkGoto(p, "f_swap_lock")
            /\ UNCHANGED lkloc

\* MemTable.Swap: m.mu.Lock()
LkFlushSwapLock(p) ==
    /\ LkAt(p, "f_swap_lock")
    /\ lk.mtMu[lkloc[p].mt] = "free"
    /\ lk' = [lk EXCEPT !.mtMu[lkloc[p].mt] = p]
    /\ LkGoto(p, "f_swap")
    /\ UNCHANGED lkloc

\* MemTable.Swap: the snapshot, the new table, size 0 and m.mu.Unlock()
LkFlushSwap(p) ==
    /\ LkAt(p, "f_swap")
    /\ lk' = [lk EXCEPT !.mtMu[lkloc[p].mt] = "free", !.mtSize[lkloc[p].mt] = 0]
    /\ LkGoto(p, "f_store")
    /\ UNCHANGED lkloc

\* flushMemTable: l.memTable.Store(newMT), CreateSSTable, the append to level
\* 0 and l.mu.Unlock()
LkFlushStore(p) ==
    /\ LkAt(p, "f_store")
    /\ lk' = [lk EXCEPT !.mtMu = Append(@, "free"), !.mtSize = Append(@, 0),
                        !.ptr = Len(lk.mtMu) + 1, !.mu.w = "free"]
    /\ LkGoto(p, "f_wal_flush")
    /\ UNCHANGED lkloc

\* WAL.Flush: the loop ends when len(w.walCh) is 0
LkFlushWalFlush(p) ==
    /\ LkAt(p, "f_wal_flush")
    /\ lk.ch = 0
    /\ LkGoto(p, "f_reset_lock")
    /\ UNCHANGED <<lk, lkloc>>

\* WAL.Reset: w.mu.Lock()
LkFlushResetLock(p) ==
    /\ LkAt(p, "f_reset_lock")
    /\ lk.wMu = "free"
    /\ lk' = [lk EXCEPT !.wMu = p]
    /\ LkGoto(p, "f_reset")
    /\ UNCHANGED lkloc

\* WAL.Reset: w.file.Close() fails on a file that WAL.Close has closed, else
\* the file is opened again truncated; w.mu and l.flushMu are released
LkFlushReset(p) ==
    /\ LkAt(p, "f_reset")
    /\ lk' = [lk EXCEPT !.wMu = "free", !.flushMu = "free"]
    /\ LkAfterFlush(p, lk.fileOpen)

\* Compactor.Compact: c.mu.Lock()
LkCompactLock(p) ==
    /\ LkAt(p, "c_lock")
    /\ lk.cMu = "free"
    /\ lk' = [lk EXCEPT !.cMu = p]
    /\ LkGoto(p, "c_mu")
    /\ UNCHANGED lkloc

\* Compactor.Compact: lsm.mu.Lock()
LkCompactMuLock(p) ==
    /\ LkAt(p, "c_mu")
    /\ lk.mu.w = "free" /\ lk.mu.r = {}
    /\ lk' = [lk EXCEPT !.mu.w = p]
    /\ LkGoto(p, "c_work")
    /\ UNCHANGED lkloc

\* Compactor.Compact: the merge and the two deferred unlocks; ForceCompaction
\* returns, the compactor goroutine goes back to its select
LkCompactDone(p) ==
    /\ LkAt(p, "c_work")
    /\ lk' = [lk EXCEPT !.mu.w = "free", !.cMu = "free"]
    /\ IF p = LkCompactor
       THEN LkGoto(p, "cp_select") /\ UNCHANGED lkloc
       ELSE LkReturn(p)

\* Compactor.Run: the ticker case of the select
LkCompactorTick ==
    /\ LkAt(LkCompactor, "cp_select")
    /\ lk.ticks < MaxTicks
    /\ lk' = [lk EXCEPT !.ticks = @ + 1]
    /\ LkGoto(LkCompactor, "c_lock")
    /\ UNCHANGED lkloc

\* Compactor.Run: the stopCh case of the select; the goroutine ends
LkCompactorStop ==
    /\ LkAt(LkCompactor, "cp_select")
    /\ lk.stop
    /\ LkGoto(LkCompactor, "exited")
    /\ UNCHANGED <<lk, lkloc>>

\* Close is invoked: close(l.stopCh)
LkCloseCall ==
    /\ LkAt(LkCloser, "idle")
    /\ ~lk.closeCalled
    /\ lk' = [lk EXCEPT !.closeCalled = TRUE, !.stop = TRUE]
    /\ LkGoto(LkCloser, "cl_wait")
    /\ lkloc' = [lkloc EXCEPT ![LkCloser] = [NoLkLocals EXCEPT !.op = "close"]]

\* Close: l.wg.Wait() returns when the compactor goroutine has ended; then
\* flushMemTable is called
LkCloseWait ==
    /\ LkAt(LkCloser, "cl_wait")
    /\ lkpc[LkCompactor] = "exited"
    /\ LkGoto(LkCloser, "f_lock")
    /\ UNCHANGED <<lk, lkloc>>

\* WAL.Close: close(w.walCh)
LkWalClose ==
    /\ LkAt(LkCloser, "wc_close")
    /\ lk' = [lk EXCEPT !.chClosed = TRUE]
    /\ LkGoto(LkCloser, "wc_wait")
    /\ UNCHANGED lkloc

\* WAL.Close: w.wg.Wait() returns when the worker has ended
LkWalCloseWait ==
    /\ LkAt(LkCloser, "wc_wait")
    /\ lkpc[LkWorker] = "exited"
    /\ LkGoto(LkCloser, "wc_lock")
    /\ UNCHANGED <<lk, lkloc>>

\* WAL.Close: w.mu.Lock()
LkWalCloseLock ==
    /\ LkAt(LkCloser, "wc_lock")
    /\ lk.wMu = "free"
    /\ lk' = [lk EXCEPT !.wMu = LkCloser]
    /\ LkGoto(LkCloser, "wc_file")
    /\ UNCHANGED lkloc

\* WAL.Close: w.file.Close() and the deferred w.mu.Unlock(); Close returns
LkWalCloseFile ==
    /\ LkAt(LkCloser, "wc_file")
    /\ lk' = [lk EXCEPT !.wMu = "free", !.fileOpen = FALSE]
    /\ LkReturn(LkCloser)

\* WAL.worker: the range loop receives an entry
LkWorkerReceive ==
    /\ LkAt(LkWorker, "ww_recv")
    /\ lk.ch > 0
    /\ lk' = [lk EXCEPT !.ch = @ - 1]
    /\ LkGoto(LkWorker, "ww_lock")
    /\ UNCHANGED lkloc

\* WAL.worker: the range loop ends on the closed and drained channel
LkWorkerExit ==
    /\ LkAt(LkWorker, "ww_recv")
    /\ lk.ch = 0 /\ lk.chClosed
    /\ LkGoto(LkWorker, "exited")
    /\ UNCHANGED <<lk, lkloc>>

\* WAL.worker: w.mu.Lock()
LkWorkerLock ==
    /\ LkAt(LkWorker, "ww_lock")
    /\ lk.wMu = "free"
    /\ lk' = [lk EXCEPT !.wMu = LkWorker]
    /\ LkGoto(LkWorker, "ww_write")
    /\ UNCHANGED lkloc

\* WAL.worker: w.file.Write and w.mu.Unlock()
LkWorkerWrite ==
    /\ LkAt(LkWorker, "ww_write")
    /\ lk' = [lk EXCEPT !.wMu = "free"]
    /\ LkGoto(LkWorker, "ww_recv")
    /\ UNCHANGED lkloc

\* the steps of goroutine p other than the invocation of a call and the
\* firing of the ticker
LkStep(p) ==
    \/ LkAppend(p) \/ LkInsertLoad(p) \/ LkInsertRLock(p) \/ LkInsertMtLock(p)
    \/ LkInsertStore(p) \/ LkInsertRUnlock(p) \/ LkDeleteStore(p)
    \/ (\E hit \in BOOLEAN : LkGetLoad(p, hit)) \/ LkGetRLock(p) \/ LkGetRUnlock(p)
    \/ LkForceLoad(p) \/ LkForceSize(p)
    \/ LkFlushLock(p) \/ LkFlushMuLock(p) \/ LkFlushSizeLock(p) \/ LkFlushSize(p)
    \/ LkFlushSwapLock(p) \/ LkFlushSwap(p) \/ LkFlushStore(p) \/ LkFlushWalFlush(p)
    \/ LkFlushResetLock(p) \/ LkFlushReset(p)
    \/ LkCompactLock(p) \/ LkCompactMuLock(p) \/ LkCompactDone(p)
    \/ (p = LkCompactor /\ LkCompactorStop)
    \/ (p = LkCloser /\ (LkCloseWait \/ LkWalClose \/ LkWalCloseWait \/ LkWalCloseLock
                           \/ LkWalCloseFile))
    \/ (p = LkWorker /\ (LkWorkerReceive \/ LkWorkerExit \/ LkWorkerLock \/ LkWorkerWrite))

\* ========================================================================
\* File adapter (pkg/adapters/file/file.go) with ThreadSafe set: one caller,
\* the goroutines Insert starts for the index, the WAL worker and the
\* compaction worker.  f.index is a pointer to a sync.Map object; compact
\* replaces it, and a goroutine started by Insert stores into the object that
\* f.index referred to when it was started.
\* ========================================================================
MaxFaOps == 3
FaChCap == 2

VARIABLES
    faData,      \* f.data
    faMaps,      \* the sync.Map objects created so far: key -> value or NoEntry
    faIndex,     \* f.index: the object it refers to
    faPending,   \* the goroutines `go f.index.Store(key, value)` that have not run yet
    faWalCh,     \* f.walCh
    faWalBuf,    \* the entries in f.walBuffer
    faWalFile,   \* the entries of the WAL file
    faRes,       \* what the last call returned
    faGone,      \* the keys Delete returned nil for with no Insert of the key invoked since
    faOps        \* calls made so far

faVars == <<faData, faMaps, faIndex, faPending, faWalCh, faWalBuf, faWalFile, faRes,
            faGone, faOps>>

\* a sync.Map with no key
FaNoMap == [k \in Keys |-> NoEntry]

\* NewFile on an empty path
FaInit ==
    /\ faData = <<>>
    /\ faMaps = <<FaNoMap>>
    /\ faIndex = 1
    /\ faPending = {}
    /\ faWalCh = <<>>
    /\ faWalBuf = <<>>
    /\ faWalFile = <<>>
    /\ faRes = [op |-> "none", key |-> 0, err |-> "nil", value |-> "", n |-> 0]
    /\ faGone = {}
    /\ faOps = 0

FaReturns(op, k, err, value) ==
    faRes' = [op |-> op, key |-> k, err |-> err, value |-> value, n |-> faRes.n + 1]

\* File.Insert: the append to f.data under f.mu, the goroutine that will store
\* into the index, the send of the WAL entry
FileInsert(k, v) ==
    /\ faOps < MaxFaOps
    /\ Len(faWalCh) < FaChCap
    /\ faOps' = faOps + 1
    /\ faData' = Append(faData, [key |-> k, value |-> v, deleted |-> FALSE])
    /\ faPending' = faPending \cup {[id |-> faOps, key |-> k, value |-> v, map |-> faIndex]}
    /\ faWalCh' = Append(faWalCh, [Op |-> "INSERT", Key |-> k, Value |-> v])
    /\ faGone' = faGone \ {k}
    /\ FaReturns("insert", k, "nil", "")
    /\ UNCHANGED <<faMaps, faIndex, faWalBuf, faWalFile>>

\* the goroutine started by `go f.index.Store(key, valStr)` runs
FileIndexStore(j) ==
    /\ j \in faPending
    /\ faMaps' = [faMaps EXCEPT ![j.map][j.key] = j.value]
    /\ faPending' = faPending \ {j}
    /\ UNCHANGED <<faData, faIndex, faWalCh, faWalBuf, faWalFile, faRes, faGone, faOps>>

\* the entries of f.data Delete keeps: those of other keys
FaOtherKeys(data, k) == SelectSeq(data, LAMBDA e : e.key # k)

\* File.Delete: ErrKeyNotFound unless f.data holds an entry of the key that
\* is not deleted; else the entries of the key are replaced by one deleted
\* entry, the key is removed from the index and the WAL entry is sent
FileDelete(k) ==
    /\ faOps < MaxFaOps
    /\ faOps' = faOps + 1
    /\ IF \E i \in 1..Len(faData) : faData[i].key = k /\ ~faData[i].deleted
       THEN /\ Len(faWalCh) < FaChCap
            /\ faData' = Append(FaOtherKeys(faData, k),
                                [key |-> k, value |-> "", deleted |-> TRUE])
            /\ faMaps' = [faMaps EXCEPT ![faIndex][k] = NoEntry]
            /\ faWalCh' = Append(faWalCh, [Op |-> "DELETE", Key |-> k, Value |-> ""])
            /\ faGone' = faGone \cup {k}
            /\ FaReturns("delete", k, "nil", "")
       ELSE /\ FaReturns("delete", k, "ErrKeyNotFound", "")
            /\ UNCHANGED <<faData, faMaps, faWalCh, faGone>>
    /\ UNCHANGED <<faIndex, faPending, faWalBuf, faWalFile>>

\* File.Get: f.index.Load(key)
FileGet(k) ==
    /\ faOps < MaxFaOps
    /\ faOps' = faOps + 1
    /\ IF faMaps[faIndex][k] # NoEntry
       THEN FaReturns("get", k, "nil", faMaps[faIndex][k])
       ELSE FaReturns("get", k, "ErrKeyNotFound", "")
    /\ UNCHANGED <<faData, faMaps, faIndex, faPending, faWalCh, faWalBuf, faWalFile, faGone>>

\* walWorker: an entry batch is received and appendWAL copies it to the buffer
FileWalWorkerReceive ==
    /\ Len(faWalCh) > 0
    /\ faWalBuf' = Append(faWalBuf, Head(faWalCh))
    /\ faWalCh' = Tail(faWalCh)
    /\ UNCHANGED <<faData, faMaps, faIndex, faPending, faWalFile, faRes, faGone, faOps>>

\* walWorker: the ticker fires and flushBuffer writes the buffer to the WAL file
FileWalWorkerFlush ==
    /\ Len(faWalBuf) > 0
    /\ faWalFile' = faWalFile \o faWalBuf
    /\ faWalBuf' = <<>>
    /\ UNCHANGED <<faData, faMaps, faIndex, faPending, faWalCh, faRes, faGone, faOps>>

RECURSIVE FaCompacted(_, _)
\* the compacted slice of compact: per key, from key k on, the last entry of
\* f.data when it is not a deleted one, in key order
FaCompacted(data, k) ==
    IF k > NumKeys THEN <<>>
    ELSE LET idx == {i \in 1..Len(data) : data[i].key = k}
             lst == CHOOSE i \in idx : \A j \in idx : j <= i
         IN (IF idx # {} /\ ~data[lst].deleted THEN <<data[lst]>> ELSE <<>>)
            \o FaCompacted(data, k + 1)

\* compactWorker: compact rewrites the main file, truncates the WAL, replaces
\* f.data by the compacted slice and f.index by a new map built from it
FileCompact ==
    /\ Len(faData) > 0
    /\ Len(faMaps) <= MaxFaOps
    /\ LET compacted == FaCompacted(faData, 1)
       IN /\ faData' = compacted
          /\ faMaps' = Append(faMaps,
                 [k \in Keys |->
                     IF \E i \in 1..Len(compacted) : compacted[i].key = k
                     THEN compacted[CHOOSE i \in 1..Len(compacted) : compacted[i].key = k].value
                     ELSE NoEntry])
    /\ faIndex' = Len(faMaps) + 1
    /\ faWalFile' = <<>>
    /\ UNCHANGED <<faPending, faWalCh, faWalBuf, faRes, faGone, faOps>>

\* ------------------------------------------------------------------------
\* Claims about the B-tree backend
\* ------------------------------------------------------------------------
\* what the caller expects Get(k) to return: the value of the last Insert of k
\* that returned ok, nothing after a Delete of k that returned ok
BtMatches(k) ==
    IF btLast[k] = NoEntry THEN BtGet(k).err \in {ErrKeyNotFound, ErrorfKeyNotFound}
    ELSE BtGet(k).err = "ok" /\ BtGet(k).value = btLast[k]

\* C3: Insert of a key that is already stored overwrites it: Get(k) returns the
\* value of the most recent Insert of k, and Length counts every stored key once.
C3_InsertOverwrites ==
    (btRes.op = "insert" /\ ~btCrashed) =>
        /\ BtMatches(btRes.key)
        /\ Length = Cardinality({k \in BtKeys : btLast[k] # NoEntry})

\* C4: Delete of a stored key returns ok on every tree shape Inserts and Deletes
\* reach (here: runs in which no Insert met its key already stored); afterwards
\* the key is not found and every other stored key still returns its value.
C4_DeleteRebalances ==
    (btRes.op = "delete" /\ ~btDup) =>
        /\ btRes.err # "ok" => btLast[btRes.key] = NoEntry
        /\ btRes.err # "panic"
        /\ ~btCrashed => \A k \in BtKeys : BtMatches(k)

RECURSIVE Subtree(_, _)
\* the offsets of the nodes reachable from the node at off
Subtree(d, off) ==
    {off} \cup UNION {Subtree(d, d[off].children[i]) : i \in 1..Len(d[off].children)}

\* the keys stored in the nodes reachable from the node at off
KeysBelow(d, off) ==
    UNION {{d[o].items[i].Key : i \in 1..Len(d[o].items)} : o \in Subtree(d, off)}

RECURSIVE Traverse(_, _, _)
\* the items below the node at off in order: child 0, item 0, child 1, ...;
\* i counts the items of the node already emitted
Traverse(d, off, i) ==
    LET n == d[off]
        below == IF i < Len(n.children) THEN Traverse(d, n.children[i + 1], 0) ELSE <<>>
    IN IF i >= Len(n.items) /\ i >= Len(n.children) - 1 THEN below
       ELSE IF i < Len(n.items) THEN below \o <<n.items[i + 1]>> \o Traverse(d, off, i + 1)
       ELSE below \o Traverse(d, off, i + 1)

\* the items stored in the tree of the instance
StoredItems(d, root) == IF root = 0 THEN <<>> ELSE Traverse(d, root, 0)

\* an Insert or Delete call has returned (with nil or with an error)
BtReturned == ~btCrashed /\ btRes.op \in {"insert", "delete"}

\* C16: after every Insert or Delete returns, every non-root node holds between
\* t-1 and 2t-1 items, the root holds at most 2t-1 items and at least one
\* unless the tree is empty, and every non-leaf node has one child more than
\* it has items.
C16_NodeOccupancy ==
    (BtReturned /\ RootOffset # 0) =>
        \A off \in Subtree(btDisk, RootOffset) :
            LET n == btDisk[off]
            IN /\ Len(n.items) <= 2 * Degree - 1
               /\ off # RootOffset => Len(n.items) >= Degree - 1
               /\ off = RootOffset => (Len(n.items) >= 1 \/ (isLeaf(n) /\ Length = 0))
               /\ ~isLeaf(n) => Len(n.children) = Len(n.items) + 1

\* C17: after every operation returns, the keys of each node are strictly
\* increasing, and item i of a non-leaf node is greater than every key below
\* child i and less than every key below child i+1.
C17_SearchTreeOrder ==
    (BtReturned /\ RootOffset # 0) =>
        \A off \in Subtree(btDisk, RootOffset) :
            LET n == btDisk[off]
            IN /\ \A i \in 1..(Len(n.items) - 1) : n.items[i].Key < n.items[i + 1].Key
               /\ \A i \in 1..Len(n.items) :
                     /\ i <= Len(n.children) =>
                           \A k \in KeysBelow(btDisk, n.children[i]) : k < n.items[i].Key
                     /\ i + 1 <= Len(n.children) =>
                           \A k \in KeysBelow(btDisk, n.children[i + 1]) : k > n.items[i].Key

\* C19: after every operation Length is the number of items stored in the nodes
\* reachable from the root: an Insert that returns nil adds exactly one item, a
\* Delete that returns nil removes exactly one, and an Insert or Delete that
\* returns an error leaves Length and the stored items as they were.
C19_LengthCountsItems ==
    [][(btOps' = btOps + 1 /\ ~btCrashed') =>
          /\ Length' = Len(StoredItems(btDisk', RootOffset'))
          /\ (btRes'.op = "insert" /\ btRes'.err = "ok") => Length' = Length + 1
          /\ (btRes'.op = "delete" /\ btRes'.err = "ok") => Length' = Length - 1
          /\ btRes'.err # "ok" =>
                /\ Length' = Length
                /\ StoredItems(btDisk', RootOffset') = StoredItems(btDisk, RootOffset)]_btVars

\* C18: an Insert whose target node would exceed the page size when serialized
\* returns an error and leaves the tree as it was: no page ever holds more
\* than PageSize bytes, Length is unchanged and Get returns for every key (the
\* inserted one included) what it returned before the call.
C18_OverflowLeavesTree ==
    [][(btRes'.op = "insert" /\ btOps' = btOps + 1) =>
          /\ \A off \in DOMAIN btDisk' : NodeBytes(btDisk'[off]) <= PageSize
          /\ btRes'.err = "overflow" =>
                /\ Length' = Length
                /\ \A k \in BtKeys :
                      BtGetOn(btDisk', RootOffset', Length', k) = BtGet(k)]_btVars

\* no page of the file holds an item with key k
AbsentKey(k) ==
    \A off \in DOMAIN btDisk :
        \A i \in 1..Len(btDisk[off].items) : btDisk[off].items[i].Key # k

\* C20: Delete(k) of a key that is absent (never inserted, or already deleted)
\* returns ports.ErrKeyNotFound and changes nothing, whether or not the store
\* is empty; a second Delete(k) right after a successful one returns it too.
C20_DeleteAbsentNotFound ==
    [][\A k \in BtKeys :
          (AbsentKey(k) /\ btOps' = btOps + 1
             /\ btRes' = [op |-> "delete", key |-> k, err |-> btRes'.err]) =>
             /\ btRes'.err = ErrKeyNotFound
             /\ btDisk' = btDisk
             /\ RootOffset' = RootOffset
             /\ Length' = Length]_btVars

\* C30: for every degree t, after exactly 2t Insert calls with distinct keys
\* in ascending order on an empty tree, all of which returned nil, the root is
\* a non-leaf node with exactly one item and two children.
C30_AscendingFillSplitsRoot ==
    (btOps = 2 * Degree /\ Length = 2 * Degree) =>
        /\ ~isLeaf(readNode(btDisk, RootOffset))
        /\ Len(readNode(btDisk, RootOffset).items) = 1
        /\ Len(readNode(btDisk, RootOffset).children) = 2

\* a tree of a degree above the smallest, filled with 2t ascending keys
C30_Witness ==
    /\ Degree > MinDegree
    /\ btOps = 2 * Degree
    /\ Length = 2 * Degree
    /\ btRes.op = "insert"
    /\ btRes.err = "ok"

\* ------------------------------------------------------------------------
\* Claims about the lock-free queue
\* ------------------------------------------------------------------------
\* C5: under every interleaving of the producers' Enqueue calls and the consumers'
\* Dequeue calls no value is taken twice, every value taken was enqueued, and
\* once all calls have returned the values whose Enqueue returned true are the
\* values taken plus the values still queued; when all of them were taken the
\* queue is empty and its length is 0.
C5_NoLossNoDuplicate ==
    /\ \A i, j \in 1..Len(qRemoved) : qRemoved[i] = qRemoved[j] => i = j
    /\ SeqRange(qRemoved) \subseteq 1..(Len(qNodes) - 1)
    /\ AllIdle =>
          /\ EnqReturned = SeqRange(qRemoved) \cup SeqRange(QueueContents)
          /\ SeqRange(qRemoved) \cap SeqRange(QueueContents) = {}
          /\ qLength = Len(QueueContents)
          /\ Len(qRemoved) = Cardinality(EnqReturned) =>
                (qNodes[qHead].next.ptr = 0 /\ qLength = 0)

\* C5 witness: two consumers raced for the one value a producer enqueued: one
\* took it, the other lost the head swing after reading it and then found the
\* queue empty; every call has returned
C5_Witness ==
    /\ AllIdle
    /\ EnqReturned = {1}
    /\ qRemoved = <<1>>
    /\ qRes.op = "dequeue"
    /\ ~qRes.ok
    /\ qRes.value = 1

\* C6: the values leave the queue in the order of their nodes in the list; a
\* value is not taken before the values whose Enqueue had returned when its own
\* Enqueue was called; in a run without overlapping calls Dequeue and
\* DequeueBatch return the values in the order of the Enqueue calls, and a
\* Dequeue that finds the queue empty returns (zero, false).
C6_Fifo ==
    /\ qRemoved = ChainFrom(1, qHead)
    /\ \A i \in 1..Len(qRemoved) :
          qRemoved[i] \in 1..Len(qPred) =>
              \A a \in qPred[qRemoved[i]] : \E j \in 1..(i - 1) : qRemoved[j] = a
    /\ qSeq => \A i \in 1..Len(qRemoved) : qRemoved[i] = i
    /\ (qSeq /\ qRes.op = "batch") =>
          /\ Len(qRes.items) <= qRes.taken
          /\ qRes.items = SubSeq(qRemoved, qRes.taken - Len(qRes.items) + 1, qRes.taken)
    /\ ~qRes.ok => (qRes.empty /\ (qSeq => qRes.value = Zero))
    /\ (qRes.op = "dequeue" /\ qRes.ok) => qRes.value \in SeqRange(qRemoved)

\* C6 witness: two values were enqueued one after the other and DequeueBatch
\* has returned both, the first one first
C6_Witness ==
    /\ Len(qRemoved) = 2
    /\ qPred[qRemoved[2]] = {qRemoved[1]}
    /\ qRes.op = "batch"
    /\ qRes.items = qRemoved

RECURSIVE ChainNodes(_, _)
\* the nodes met from node n on by following next.ptr, at most fuel of them
ChainNodes(n, fuel) ==
    IF n = 0 \/ fuel = 0 THEN <<>>
    ELSE <<n>> \o ChainNodes(qNodes[n].next.ptr, fuel - 1)

\* the list from the head; with more nodes than were ever allocated it has a cycle
HeadChain == ChainNodes(qHead, Len(qNodes) + 1)

\* C36: in every reachable state under concurrent Enqueue and Dequeue the
\* nodes reachable from head form one nil-terminated chain, tail is the last
\* or the second-to-last node of that chain, head never moves past tail, and
\* a node's next pointer, once set to a non-nil node, never changes again.
C36_ChainShape ==
    [][/\ Len(HeadChain') <= Len(qNodes')
       /\ \A i, j \in 1..Len(HeadChain') : HeadChain'[i] = HeadChain'[j] => i = j
       /\ \E i \in 1..Len(HeadChain') :
              /\ HeadChain'[i] = qTail'
              /\ i >= Len(HeadChain') - 1
       /\ \A n \in 1..Len(qNodes) :
              qNodes[n].next.ptr # 0 => qNodes'[n].next = qNodes[n].next
      ]_qVars

\* C36 witness: calls have overlapped, a value has been taken, the head has
\* left the sentinel and the tail lags one node behind the end of the list
C36_Witness ==
    /\ ~qSeq
    /\ qHead # 1
    /\ qNodes[qTail].next.ptr # 0
    /\ Len(HeadChain) >= 2
    /\ HeadChain[Len(HeadChain) - 1] = qTail

\* the Enqueue calls that have linked their node and not yet counted it
EnqUncounted == {p \in Producers : qpc[p] \in {"e_swing", "e_count"}}

\* the Dequeue calls that have swung the head and not yet counted it
DeqUncounted == {c \in Consumers : qpc[c] = "d_count"}

\* C37: Length() is never negative in any interleaving of Enqueue and
\* Dequeue, and whenever no Enqueue or Dequeue is in progress it equals the
\* number of values currently in the queue.
C37_LengthNeverNegative ==
    /\ qLength >= 0
    /\ AllIdle => qLength = Len(QueueContents)

\* C37 as the code has it: q.length is the number of values in the queue less
\* the Enqueue calls that have linked and not yet counted, plus the Dequeue
\* calls that have swung the head and not yet counted; it is never below
\* minus the number of producers, and it is the number of values in the
\* queue whenever no Enqueue or Dequeue is in progress.
C37_LengthLagsByCallsInFlight ==
    /\ qLength = Len(QueueContents) - Cardinality(EnqUncounted) + Cardinality(DeqUncounted)
    /\ qLength >= 0 - Cardinality(Producers)
    /\ AllIdle => qLength = Len(QueueContents)

\* C37 witness: a value was taken before the Enqueue that linked it has
\* counted it, and the Dequeue has returned: the length is -1
C37_Witness ==
    /\ qLength = 0 - 1
    /\ Len(qRemoved) = 1
    /\ Len(QueueContents) = 0
    /\ DeqUncounted = {}
    /\ Cardinality(EnqUncounted) = 1

\* ------------------------------------------------------------------------
\* Claims about the LSM backend
\* ------------------------------------------------------------------------
\* C1: after Insert(k, v) has returned ok and with no later Insert or Delete of
\* k, Get(k) returns v in every later state (after flushes, with older values
\* of k in other SSTables or in the block cache, after compaction).
C1_InsertThenGet ==
    \A k \in Keys :
        (Running /\ last[k] \in Values) => (Get(k).ok /\ Get(k).value = last[k])

\* C2: after Delete(k) has returned ok and with no later Insert of k, Get(k)
\* returns key-not-found in every later state.
C2_DeleteThenGet ==
    \A k \in Keys : (Running /\ last[k] = "deleted") => ~Get(k).ok

\* C7: on a store reopened after Close, Get(k) returns for every key the
\* outcome of the last mutation acknowledged before Close.
C7_ReopenKeepsLast ==
    (Running /\ opens > 0 /\ sinceOpen = 0) =>
        \A k \in Keys :
            /\ last[k] \in Values => (Get(k).ok /\ Get(k).value = last[k])
            /\ last[k] = "deleted" => ~Get(k).ok

\* C9: when WAL.Flush returns, every entry appended before it was called is in
\* the WAL file; none is held only by the worker.
C9_FlushLeavesNothingInFlight ==
    pc = "wal_reset" => (Len(walCh) = 0 /\ walHeld = NoWalEntry)

\* C10: while the active memtable holds a tombstone for k, Get(k) returns
\* key-not-found, whatever the block cache and the SSTables hold for k.
C10_TombstoneWins ==
    \A k \in Keys : (Running /\ memTable[k] = tombstone) => ~Get(k).ok

\* a step in which Compactor.Compact merged level 0 into level 1
CompactStep ==
    /\ CompactDue(levels)
    /\ files' = CompactedFiles(levels, files)
    /\ levels' = CompactedLevels(levels, files)

\* the level-0 table holds a record of key k
HoldsKey(sst, fs, k) == \E i \in 1..Len(fs[sst.file]) : fs[sst.file][i][1] = k

\* the level-0 tables that hold k, and among them the one written last (files
\* are numbered in the order of their creation)
InputsOf(lv, fs, k) == {i \in 1..Len(lv[1]) : HoldsKey(lv[1][i], fs, k)}

NewestInput(lv, fs, k) ==
    CHOOSE i \in InputsOf(lv, fs, k) :
        \A j \in InputsOf(lv, fs, k) : lv[1][j].file <= lv[1][i].file

\* C11: Compact leaves the key-value map unchanged: for every key, Get on an
\* empty memtable and a cold cache returns after the merge of level 0 into
\* level 1 what it returned before, and for a key held by several level-0
\* inputs the merged table keeps the value of the input written last.
C11_CompactKeepsMap ==
    [][CompactStep =>
        \A k \in Keys :
            /\ GetOn(EmptyTable, <<>>, levels', files', k).ok
                 = GetOn(EmptyTable, <<>>, levels, files, k).ok
            /\ GetOn(EmptyTable, <<>>, levels', files', k).value
                 = GetOn(EmptyTable, <<>>, levels, files, k).value
            /\ Cardinality(InputsOf(levels, files, k)) > 1 =>
                 SSTableGet(OpenSSTable(Len(files'), files'[Len(files')]), files', k)
                   = SSTableGet(levels[1][NewestInput(levels, files, k)], files, k)]_lsmVars

\* a step in which ForceCompaction returns nil: the flush it asked for has
\* reset the WAL and Compact has run, or the memtable was empty and Compact ran
ForceCompactionReturns ==
    \/ pc = "wal_reset" /\ pend.op = "force" /\ pc' = "idle"
    \/ Running /\ memSize = 0 /\ CompactStep /\ pc' = "idle"

\* C12: ForceCompaction on a store that holds a key flushes the memtable and
\* merges level 0 whatever the number of level-0 SSTables: when it returns ok
\* the memtable is empty, level 0 is empty and the level system holds exactly
\* one SSTable, at level 1.
C12_ForceCompactionMergesAll ==
    [][(ForceCompactionReturns /\ Len(files') > 0) =>
        /\ memSize' = 0
        /\ Len(levels') = 2
        /\ Len(levels'[1]) = 0
        /\ Len(levels'[2]) = 1]_lsmVars

\* C15: after any sequence of flushes and compactions the SSTables of each
\* level from 1 on have pairwise disjoint [minKey, maxKey] ranges.
C15_LevelRangesDisjoint ==
    \A n \in 2..Len(levels) :
        \A i, j \in 1..Len(levels[n]) :
            i < j => \/ levels[n][i].maxKey < levels[n][j].minKey
                     \/ levels[n][j].maxKey < levels[n][i].minKey

\* C21: an Insert or Delete invoked after Close has returned yields an error
\* value: it does not panic, does not block forever and does not change the
\* stored state.
C21_ClosedStoreReturnsError ==
    [][(closed /\ nOps' = nOps + 1) =>
          /\ pc' = "idle"
          /\ UNCHANGED <<memTable, memSize, walCh, walFile, levels, files>>]_lsmVars

\* the WAL goroutine has nothing left to write: the channel is empty and the
\* worker holds no entry
WalDrained == Len(walCh) = 0 /\ walHeld = NoWalEntry

\* C33: whenever no operation is in flight, every key-value pair and every
\* tombstone of the active memtable is reproduced by replaying the current
\* db.wal, the Insert whose memtable-full result triggered a flush included.
\* The property is asked only of states where the WAL worker has written
\* every entry it was sent.
C33_MemTableCoveredByWal ==
    (Running /\ WalDrained) =>
        \A k \in Keys :
            memTable[k] # NoEntry =>
                RecoverFromWAL(walFile, Len(walFile)).table[k] = memTable[k]

\* ------------------------------------------------------------------------
\* Claims about the LSM coordinator under concurrent callers
\* ------------------------------------------------------------------------
CoordIdle == \A g \in Goroutines : gpc[g] = "idle"

\* the acknowledged Insert acked[i] is the only acknowledged mutation of its key
OnlyMutationOfKey(i) ==
    \A j \in 1..Len(acked) : acked[j].key = acked[i].key => j = i

\* the active memtable or an SSTable file holds the pair of acked[i]
Landed(i) ==
    \/ mts[mtPtr].table[acked[i].key] = acked[i].value
    \/ \E f \in 1..Len(files) : \E r \in 1..Len(files[f]) :
          files[f][r] = <<acked[i].key, acked[i].value>>

\* C13: under every interleaving of Insert and Delete with a flush, no Insert
\* or Delete is applied to a memtable after the Swap of that memtable; every
\* acknowledged mutation is in the memtable that is active after the flush or
\* in the snapshot the flush writes (checked, once all calls have returned,
\* for the Inserts whose key no other acknowledged mutation touched).
C13_NoMutationAfterSwap ==
    /\ \A i \in 1..Len(acked) : ~acked[i].late
    /\ CoordIdle =>
          \A i \in 1..Len(acked) :
              (acked[i].op = "insert" /\ OnlyMutationOfKey(i)) => Landed(i)

\* C14: in every state a concurrent reader or writer can observe (a Load of
\* l.memTable can be the next step in every state), the atomic pointer refers
\* to a memtable on which Swap has not been called.
C14_PointerNeverSwapped ==
    ~mts[mtPtr].swapped

\* ------------------------------------------------------------------------
\* Claims about the memtables
\* ------------------------------------------------------------------------
\* C22: MemTable.Insert succeeds when the accumulated byte size after the
\* insert is exactly the cap, and returns the memtable-full error leaving
\* contents and size unchanged whenever the insert would push the size above
\* the cap; hence the size never exceeds the cap.
C22_InsertRespectsCap ==
    [][/\ mtSize' <= mtMaxSize'
       /\ (mtRes'.n = mtRes.n + 1 /\ mtRes'.op = "insert") =>
             LET after == mtSize + KeyLen(mtRes'.key) + ValLen(mtRes'.value)
             IN /\ after = mtMaxSize =>
                      /\ mtRes'.err = "ok"
                      /\ mtTable' = [mtTable EXCEPT ![mtRes'.key] = mtRes'.value]
                      /\ mtSize' = mtMaxSize
                /\ after > mtMaxSize =>
                      /\ mtRes'.err = "full"
                      /\ mtTable' = mtTable
                      /\ mtSize' = mtSize]_mtVars

\* an Insert has filled the MemTable to exactly its cap
C22_Witness ==
    /\ mtRes.op = "insert"
    /\ mtRes.err = "ok"
    /\ mtSize = mtMaxSize

\* C23: Swap on a memtable, with no concurrent operation, returns exactly the
\* map Dump would have returned immediately before; afterwards the size is 0
\* and Get of every key is not-found. MemTable and lfMemtable alike.
C23_SwapReturnsDump ==
    [][/\ (mtRes'.n = mtRes.n + 1 /\ mtRes'.op = "swap") =>
             /\ mtRes'.data = MtDump(mtTable)
             /\ mtSize' = 0
             /\ \A k \in Keys : ~MemGet(mtTable', k).ok
       /\ (lfSwapRes'.n = lfSwapRes.n + 1 /\ lfSwapRes'.alone) =>
             /\ lfSwapRes'.snapshot = LfDumpOn(lfNodes, lfHead)
             /\ lfLength' = 0
             /\ \A k \in LfKeys : ~LfGetOn(lfNodes', lfHead', k).ok]_<<mtVars, lfVars>>

\* both memtables have been swapped while they held entries
C23_Witness ==
    /\ mtRes.op = "swap"
    /\ mtRes.data # NoMap
    /\ lfSwapRes.n > 0
    /\ lfSwapRes.alone
    /\ lfSwapRes.snapshot # NoMap

LfIdle == \A t \in LfThreads : lfpc[t] = "idle"

\* C24: lfMemtable.Swap is atomic with respect to concurrent Insert: every
\* Insert that has returned nil is contained in a snapshot returned by Swap or
\* in the memtable as it stands afterwards (keys Delete was called with are
\* left out of the comparison).
C24_SwapLosesNoInsert ==
    LfIdle =>
        \A k \in lfIns \ lfDel :
            k \in lfSnapKeys \/ LfDumpOn(lfNodes, lfHead)[k] # NoEntry

\* the nodes that can be reached from the head along some level
RECURSIVE LfReach(_, _)
LfReach(nodes, S) ==
    LET T == S \cup ({nodes[x].next[i] : x \in S, i \in LfLevels} \ {0})
    IN IF T = S THEN S ELSE LfReach(nodes, T)

\* C27: after any sequence of Insert and Delete, including Insert of a key
\* that was deleted before, at every level each node's forward pointer is nil
\* or references a node with a strictly greater key.
C27_SkipListOrder ==
    \A x \in LfReach(lfNodes, {lfHead}) :
        \A i \in LfLevels :
            lfNodes[x].next[i] = 0 \/ lfNodes[lfNodes[x].next[i]].key > lfNodes[x].key

RECURSIVE LfLive(_, _)
\* the nodes of the level-0 list from x on that are not deleted
LfLive(nodes, x) ==
    IF x = 0 THEN {}
    ELSE (IF nodes[x].deleted = 0 THEN {x} ELSE {}) \cup LfLive(nodes, nodes[x].next[1])

\* C35: when several Delete(k) calls race on a key that is present once,
\* exactly one returns ok and all the others return an error, Size() decreases
\* by exactly 1, and every later Get(k) is not-found until k is inserted again.
\* Per target node: at most one Delete returns nil, an "already deleted" error
\* is matched by a Delete of the same node that returned nil, a Delete of a key
\* that Get finds never returns "key not found", Size() is the number of keys
\* present whenever no call is under way, and a key deleted with no Insert of
\* it invoked since is not found by Get.
C35_RacingDeletesOneWinner ==
    [][/\ \A i, j \in 1..Len(ldOk') : i # j => ldOk'[i] # ldOk'[j]
       /\ LfIdle' => ldErr' \subseteq {ldOk'[i] : i \in 1..Len(ldOk')}
       /\ (memOps' = memOps + 1 /\ lfpc' = lfpc /\ lfRes'.err = "key not found") =>
              ~LfGetOn(lfNodes, lfHead, lfRes'.key).ok
       /\ LfIdle' => lfLength' = Cardinality(LfLive(lfNodes', lfNodes'[lfHead'].next[1]))
       /\ \A k \in ldGone' : ~LfGetOn(lfNodes', lfHead', k).ok
      ]_memVars

\* two Deletes of one key have raced on its only node: one returned nil, the
\* other the error, Size() is back to 0 and Get does not find the key
C35_Witness ==
    /\ LfIdle
    /\ \E n \in ldRaced :
           /\ n \in ldErr
           /\ \E i \in 1..Len(ldOk) : ldOk[i] = n
           /\ lfNodes[n].key \in ldGone
           /\ ~LfGetOn(lfNodes, lfHead, lfNodes[n].key).ok
    /\ lfLength = 0

\* ------------------------------------------------------------------------
\* Claims about the WAL file and its replay
\* ------------------------------------------------------------------------
\* C29: when building the SSTable fails inside a flush, the WAL file is
\* neither truncated nor reset, and the next NewLSMTree on the directory
\* returns nil with a memtable that holds, by WAL replay, every mutation of
\* the memtable that was being flushed.
C29_FailedFlushKeepsWal ==
    [][/\ (ffRes'.n = ffRes.n + 1 /\ ffRes'.op \in {"insert", "close"}
            /\ ffRes'.err \in {"create", "write"}) =>
               /\ Len(ffWal') >= Len(ffWal)
               /\ SubSeq(ffWal', 1, Len(ffWal)) = ffWal
       /\ (ffRes'.n = ffRes.n + 1 /\ ffRes'.op = "open" /\ ffFailed # NoMap) =>
               /\ ffRes'.err = "nil"
               /\ \A k \in Keys : ffFailed[k] # NoEntry => ffTable'[k] = ffFailed[k]
      ]_ffVars

\* the position of entry e in the sequence s, 0 when it is not there
IndexIn(s, e) == IF \E i \in 1..Len(s) : s[i] = e
                 THEN CHOOSE i \in 1..Len(s) : s[i] = e ELSE 0

\* C28: the records of the WAL file are in the order in which the channel
\* accepted the sends of their Append calls, none missing in between, and the
\* records of one appender are in the order in which it called Append.
C28_FileOrderIsAcceptOrder ==
    /\ \E off \in 0..Len(walAccepted) :
           /\ off + Len(walFile) <= Len(walAccepted)
           /\ walFile = SubSeq(walAccepted, off + 1, off + Len(walFile))
    /\ \A i, j \in 1..Len(walFile) :
           (i < j /\ walFile[i].Key = walFile[j].Key) =>
               IndexIn(WalScript, walFile[i].Value) < IndexIn(WalScript, walFile[j].Value)

\* both appenders have records in the file, written in an order that is not
\* appender by appender
C28_Witness ==
    /\ Len(walFile) >= 3
    /\ walFile[1].Key # walFile[2].Key
    /\ walFile[2].Key # walFile[3].Key

RECURSIVE DirectApply(_, _)
\* the entries applied to a memtable as LSMTree.Insert and LSMTree.Delete apply
\* them: memTable.Insert(key, value) and memTable.Delete(key)
DirectApply(entries, mt) ==
    IF entries = <<>> THEN mt
    ELSE DirectApply(Tail(entries),
                     IF Head(entries).op = OpInsert
                     THEN RcMemInsert(mt, Head(entries).key, Head(entries).value)
                     ELSE RcMemDelete(mt, Head(entries).key))

RECURSIVE RecordsBefore(_, _)
\* how many of the entries have their whole record within the first p bytes
RecordsBefore(entries, p) ==
    IF entries = <<>> \/ BLen(WalRecord(Head(entries))) > p THEN 0
    ELSE 1 + RecordsBefore(Tail(entries), p - BLen(WalRecord(Head(entries))))

\* C25: once the appended entries are written, RecoverFromWAL on the WAL file
\* into a fresh memtable returns nil and leaves the same contents, key by key
\* with values and tombstones, as the same Insert/Delete sequence applied
\* directly to a fresh memtable.
C25_ReplayEqualsDirect ==
    (rcRes # NoRecovery /\ rcCut = NoCut) =>
        /\ rcRes.err = "nil"
        /\ rcRes.mt.data = DirectApply(rcEntries, RcNewMemTable).data

MapOffsets(b) == DOMAIN b.cache
ListOffsets(b) == {b.heap[b.cacheList[i].node].offset : i \in 1..Len(b.cacheList)}

\* C32: after every operation the number of cached nodes is at most
\* CacheSize, the cache map and the LRU list hold the same set of page
\* offsets (each once in the list), and with CacheSize = 0 nothing is cached.
C32_CacheBounded ==
    /\ Len(cbCached.cacheList) <= CacheSize
    /\ Cardinality(MapOffsets(cbCached)) <= CacheSize
    /\ MapOffsets(cbCached) = ListOffsets(cbCached)
    /\ Cardinality(ListOffsets(cbCached)) = Len(cbCached.cacheList)
    /\ cbPlain.cache = <<>>
    /\ cbPlain.cacheList = <<>>

\* a full cache after a Delete that evicted nodes on its way
C32_Witness ==
    /\ cbRes.op = "delete"
    /\ cbCached.evicted
    /\ Len(cbCached.cacheList) = CacheSize
    /\ CacheSize = MaxCacheSize

\* C39: as long as no call hits an I/O or page-overflow error, the instance with the
\* cache returns what the instance without it returns, and both leave the
\* same pages, header, root offset, length and next offset.
C39_CacheIsTransparent ==
    ~cbRes.failed =>
        /\ cbRes.cached = cbRes.plain
        /\ cbCached.disk = cbPlain.disk
        /\ cbCached.hdr = cbPlain.hdr
        /\ cbCached.RootOffset = cbPlain.RootOffset
        /\ cbCached.Length = cbPlain.Length
        /\ cbCached.nextOffset = cbPlain.nextOffset

\* ------------------------------------------------------------------------
\* Claims about the ring-buffer WAL
\* ------------------------------------------------------------------------
\* C31: in every reachable state 0 <= EntryCount() <= capacity, and an Append
\* that returns the buffer-full error has changed neither head nor tail nor a
\* buffer slot; an Append that runs alone on a full buffer returns that error.
C31_EntryCountWithinCapacity ==
    [][/\ 0 <= lwTail' - lwHead'
       /\ lwTail' - lwHead' <= LwCapacity
       /\ (lwRes'.n = lwRes.n + 1 /\ lwRes'.op = "append" /\ lwRes'.err = "full") =>
              UNCHANGED <<lwHead, lwTail, lwBuffer>>
       /\ \A t \in LwThreads :
              (lwpc[t] = "a_head" /\ lwpc'[t] # "a_head" /\ lwloc[t].alone
                  /\ lwTail - lwHead = LwCapacity) =>
                  (lwRes'.n = lwRes.n + 1 /\ lwRes'.by = t /\ lwRes'.err = "full")
      ]_lwVars

\* C34: every entry whose Append returned nil is written to the file exactly
\* once and with its content: no record of the file is an empty slot, no entry
\* is in the file twice, an acknowledged entry that is not in the file is
\* still between head and tail, and after a Flush that ran with no other call
\* in flight EntryCount() is 0.
C34_EveryEntryWrittenOnce ==
    /\ \A i \in 1..Len(lwFile) : lwFile[i] # LwZeroEntry
    /\ \A i, j \in 1..Len(lwFile) : i # j => lwFile[i] # lwFile[j]
    /\ \A e \in lwAcked :
          \/ \E i \in 1..Len(lwFile) : lwFile[i] = e
          \/ \E i \in lwHead..(lwTail - 1) : lwBuffer[i % LwCapacity] = e
    /\ (lwRes.op = "flush" /\ lwRes.alone /\ \A t \in LwThreads : lwpc[t] = "idle")
          => EntryCount = 0

\* ------------------------------------------------------------------------
\* Claims about the locks of the LSM backend
\* ------------------------------------------------------------------------
\* the goroutines that hold what goroutine p is waiting for
LkBlockers(p) ==
    LET at == lkpc[p]
    IN IF at \in {"i_rlock", "g_rlock"} THEN {lk.mu.w} \ {"free"}
       ELSE IF at \in {"f_mu", "c_mu"} THEN ({lk.mu.w} \ {"free"}) \cup lk.mu.r
       ELSE IF at \in {"i_mt_lock", "f_swap_lock"} THEN {lk.mtMu[lkloc[p].mt]} \ {"free"}
       ELSE IF at \in {"fc_load", "f_size_lock"} THEN {lk.mtMu[lk.ptr]} \ {"free"}
       ELSE IF at = "f_lock" THEN {lk.flushMu} \ {"free"}
       ELSE IF at = "c_lock" THEN {lk.cMu} \ {"free"}
       ELSE IF at \in {"f_reset_lock", "wc_lock", "ww_lock"} THEN {lk.wMu} \ {"free"}
       ELSE IF at = "cl_wait" /\ lkpc[LkCompactor] # "exited" THEN {LkCompactor}
       ELSE IF at = "wc_wait" /\ lkpc[LkWorker] # "exited" THEN {LkWorker}
       ELSE IF at = "f_wal_flush" /\ lk.ch > 0 THEN {LkWorker}
       ELSE IF at \in {"i_append", "d_append"} /\ ~lk.chClosed /\ lk.ch >= LkChCap
       THEN {LkWorker}
       ELSE {}

\* no set of goroutines in which each waits for a lock, a channel or a wait
\* group that another one of the set holds
LkNoWaitCycle ==
    \A S \in SUBSET LkProcs :
        S # {} => \E p \in S : LkBlockers(p) \cap S = {}

\* the call of p, once invoked, returns
LkCallReturns(p) == (lkpc[p] # "idle") ~> (lkpc[p] \in {"idle", "done"})

\* C38: no interleaving of concurrent Insert, Delete, Get, ForceCompaction,
\* the periodic compactor and one final Close deadlocks: the flush lock, the
\* coordinator read-write lock, the compactor mutex, the memtable mutex and
\* the WAL mutex are never awaited in a cycle, and under fair scheduling
\* every call returns and Close terminates.
C38_NoDeadlockEveryCallReturns ==
    /\ []LkNoWaitCycle
    /\ \A p \in LkCallers \cup {LkCloser} : LkCallReturns(p)

\* what is left of C38 when no send on the closed WAL channel panics: every
\* call returns unless the process has panicked
LkReturnsUnlessPanic ==
    \A p \in LkCallers \cup {LkCloser} :
        (lkpc[p] # "idle") ~> (lkpc[p] \in {"idle", "done"} \/ lk.panic)

\* ------------------------------------------------------------------------
\* Claims about the file adapter
\* ------------------------------------------------------------------------
\* C40: once Delete(k) has returned ok, Get(k) returns key-not-found until
\* the next Insert(k) is invoked, whatever the scheduling of the background
\* goroutines started by earlier Insert calls.
C40_DeletedKeyStaysNotFound ==
    [][(faRes'.n = faRes.n + 1 /\ faRes'.op = "get" /\ faRes'.key \in faGone) =>
           faRes'.err = "ErrKeyNotFound"]_faVars

vars == <<lsmVars, btVars, qVars, coordVars, memVars, rcVars, walObjVars, ffVars, lwVars, cbVars, lkVars, faVars>>

\* a store opened on an empty directory; the memtable object is the one
\* NewLSMTree builds from the configured size
Init ==
    /\ LsmInit /\ BtInit /\ QueueInit /\ CoordInit
    /\ MemInit /\ mtMaxSize = MemTableSize /\ Degree = MinDegree
    /\ RcInit /\ WalObjInit /\ FfInit /\ LwInit /\ CacheSize = 1 /\ CbInit /\ LkInit /\ FaInit

\* the LSM tree: its operations, the WAL worker and the compaction timer
Next ==
    \/ (\E k \in Keys, v \in Values : LsmInsert(k, v)) /\ UNCHANGED <<btVars, qVars, coordVars, memVars, rcVars, walObjVars, ffVars, lwVars, cbVars, lkVars, faVars>>
    \/ (\E k \in Keys : LsmDelete(k)) /\ UNCHANGED <<btVars, qVars, coordVars, memVars, rcVars, walObjVars, ffVars, lwVars, cbVars, lkVars, faVars>>
    \/ (\E k \in Keys : LsmGet(k)) /\ UNCHANGED <<btVars, qVars, coordVars, memVars, rcVars, walObjVars, ffVars, lwVars, cbVars, lkVars, faVars>>
    \/ ForceCompaction /\ UNCHANGED <<btVars, qVars, coordVars, memVars, rcVars, walObjVars, ffVars, lwVars, cbVars, lkVars, faVars>>
    \/ WalFlush /\ UNCHANGED <<btVars, qVars, coordVars, memVars, rcVars, walObjVars, ffVars, lwVars, cbVars, lkVars, faVars>>
    \/ WalReset /\ UNCHANGED <<btVars, qVars, coordVars, memVars, rcVars, walObjVars, ffVars, lwVars, cbVars, lkVars, faVars>>
    \/ LsmClose /\ UNCHANGED <<btVars, qVars, coordVars, memVars, rcVars, walObjVars, ffVars, lwVars, cbVars, lkVars, faVars>>
    \/ WalClose /\ UNCHANGED <<btVars, qVars, coordVars, memVars, rcVars, walObjVars, ffVars, lwVars, cbVars, lkVars, faVars>>
    \/ Reopen /\ UNCHANGED <<btVars, qVars, coordVars, memVars, rcVars, walObjVars, ffVars, lwVars, cbVars, lkVars, faVars>>
    \/ WalWorkerReceive /\ UNCHANGED <<btVars, qVars, coordVars, memVars, rcVars, walObjVars, ffVars, lwVars, cbVars, lkVars, faVars>>
    \/ WalWorkerWrite /\ UNCHANGED <<btVars, qVars, coordVars, memVars, rcVars, walObjVars, ffVars, lwVars, cbVars, lkVars, faVars>>
    \/ CompactTick /\ UNCHANGED <<btVars, qVars, coordVars, memVars, rcVars, walObjVars, ffVars, lwVars, cbVars, lkVars, faVars>>

Spec == Init /\ [][Next]_vars

\* the LSM tree started on a store that has been through one compaction
InitCompacted ==
    /\ LsmInitCompacted /\ BtInit /\ QueueInit /\ CoordInit
    /\ MemInit /\ mtMaxSize = MemTableSize /\ Degree = MinDegree
    /\ RcInit /\ WalObjInit /\ FfInit /\ LwInit /\ CacheSize = 1 /\ CbInit /\ LkInit /\ FaInit

\* the write path of the LSM tree: Insert, ForceCompaction with its flush, the
\* WAL worker and the compaction timer
WritePathNext ==
    \/ (\E k \in Keys, v \in Values : LsmInsert(k, v)) /\ UNCHANGED <<btVars, qVars, coordVars, memVars, rcVars, walObjVars, ffVars, lwVars, cbVars, lkVars, faVars>>
    \/ ForceCompaction /\ UNCHANGED <<btVars, qVars, coordVars, memVars, rcVars, walObjVars, ffVars, lwVars, cbVars, lkVars, faVars>>
    \/ WalFlush /\ UNCHANGED <<btVars, qVars, coordVars, memVars, rcVars, walObjVars, ffVars, lwVars, cbVars, lkVars, faVars>>
    \/ WalReset /\ UNCHANGED <<btVars, qVars, coordVars, memVars, rcVars, walObjVars, ffVars, lwVars, cbVars, lkVars, faVars>>
    \/ WalWorkerReceive /\ UNCHANGED <<btVars, qVars, coordVars, memVars, rcVars, walObjVars, ffVars, lwVars, cbVars, lkVars, faVars>>
    \/ WalWorkerWrite /\ UNCHANGED <<btVars, qVars, coordVars, memVars, rcVars, walObjVars, ffVars, lwVars, cbVars, lkVars, faVars>>
    \/ CompactTick /\ UNCHANGED <<btVars, qVars, coordVars, memVars, rcVars, walObjVars, ffVars, lwVars, cbVars, lkVars, faVars>>

SpecCompacted == InitCompacted /\ [][WritePathNext]_vars

\* the B-tree
BtreeNext ==
    \/ (\E k \in BtKeys : \E v \in {NewValue(k), BigValue} : BtInsert(k, v)) /\ UNCHANGED <<lsmVars, qVars, coordVars, memVars, rcVars, walObjVars, ffVars, lwVars, cbVars, lkVars, faVars>>
    \/ (\E k \in BtKeys : BtDelete(k)) /\ UNCHANGED <<lsmVars, qVars, coordVars, memVars, rcVars, walObjVars, ffVars, lwVars, cbVars, lkVars, faVars>>
    \/ BtReopen /\ UNCHANGED <<lsmVars, qVars, coordVars, memVars, rcVars, walObjVars, ffVars, lwVars, cbVars, lkVars, faVars>>

SpecBtree == Init /\ [][BtreeNext]_vars

\* the lock-free queue: every step of every goroutine
LFQueueNext ==
    \/ (\E p \in Producers : EnqueueCall(p)) /\ UNCHANGED <<lsmVars, btVars, coordVars, memVars, rcVars, walObjVars, ffVars, lwVars, cbVars, lkVars, faVars>>
    \/ (\E p \in Producers : EnqueueLoadTail(p)) /\ UNCHANGED <<lsmVars, btVars, coordVars, memVars, rcVars, walObjVars, ffVars, lwVars, cbVars, lkVars, faVars>>
    \/ (\E p \in Producers : EnqueueLoadNext(p)) /\ UNCHANGED <<lsmVars, btVars, coordVars, memVars, rcVars, walObjVars, ffVars, lwVars, cbVars, lkVars, faVars>>
    \/ (\E p \in Producers : EnqueueCheckTail(p)) /\ UNCHANGED <<lsmVars, btVars, coordVars, memVars, rcVars, walObjVars, ffVars, lwVars, cbVars, lkVars, faVars>>
    \/ (\E p \in Producers : EnqueueHelpTail(p)) /\ UNCHANGED <<lsmVars, btVars, coordVars, memVars, rcVars, walObjVars, ffVars, lwVars, cbVars, lkVars, faVars>>
    \/ (\E p \in Producers : EnqueueLink(p)) /\ UNCHANGED <<lsmVars, btVars, coordVars, memVars, rcVars, walObjVars, ffVars, lwVars, cbVars, lkVars, faVars>>
    \/ (\E p \in Producers : EnqueueSwingTail(p)) /\ UNCHANGED <<lsmVars, btVars, coordVars, memVars, rcVars, walObjVars, ffVars, lwVars, cbVars, lkVars, faVars>>
    \/ (\E p \in Producers : EnqueueReturn(p)) /\ UNCHANGED <<lsmVars, btVars, coordVars, memVars, rcVars, walObjVars, ffVars, lwVars, cbVars, lkVars, faVars>>
    \/ (\E c \in Consumers : \E n \in {0} \cup BatchSizes : DequeueCall(c, n)) /\ UNCHANGED <<lsmVars, btVars, coordVars, memVars, rcVars, walObjVars, ffVars, lwVars, cbVars, lkVars, faVars>>
    \/ (\E c \in Consumers : DequeueLoadHead(c)) /\ UNCHANGED <<lsmVars, btVars, coordVars, memVars, rcVars, walObjVars, ffVars, lwVars, cbVars, lkVars, faVars>>
    \/ (\E c \in Consumers : DequeueLoadTail(c)) /\ UNCHANGED <<lsmVars, btVars, coordVars, memVars, rcVars, walObjVars, ffVars, lwVars, cbVars, lkVars, faVars>>
    \/ (\E c \in Consumers : DequeueLoadNext(c)) /\ UNCHANGED <<lsmVars, btVars, coordVars, memVars, rcVars, walObjVars, ffVars, lwVars, cbVars, lkVars, faVars>>
    \/ (\E c \in Consumers : DequeueHelpTail(c)) /\ UNCHANGED <<lsmVars, btVars, coordVars, memVars, rcVars, walObjVars, ffVars, lwVars, cbVars, lkVars, faVars>>
    \/ (\E c \in Consumers : DequeueSwingHead(c)) /\ UNCHANGED <<lsmVars, btVars, coordVars, memVars, rcVars, walObjVars, ffVars, lwVars, cbVars, lkVars, faVars>>
    \/ (\E c \in Consumers : DequeueReturn(c)) /\ UNCHANGED <<lsmVars, btVars, coordVars, memVars, rcVars, walObjVars, ffVars, lwVars, cbVars, lkVars, faVars>>

SpecQueue == Init /\ [][LFQueueNext]_vars

\* the LSM coordinator with concurrent callers and the WAL worker
CoordNext ==
    \/ (\E g \in Goroutines, k \in Keys, v \in Values : InsertAppend(g, k, v)) /\ UNCHANGED <<coordFrame, btVars, qVars, memVars, rcVars, walObjVars, ffVars, lwVars, cbVars, lkVars, faVars>>
    \/ (\E g \in Goroutines : InsertLoad(g)) /\ UNCHANGED <<coordFrame, btVars, qVars, memVars, rcVars, walObjVars, ffVars, lwVars, cbVars, lkVars, faVars>>
    \/ (\E g \in Goroutines : InsertMemTable(g)) /\ UNCHANGED <<coordFrame, btVars, qVars, memVars, rcVars, walObjVars, ffVars, lwVars, cbVars, lkVars, faVars>>
    \/ (\E g \in Goroutines, k \in Keys : DeleteAppend(g, k)) /\ UNCHANGED <<coordFrame, btVars, qVars, memVars, rcVars, walObjVars, ffVars, lwVars, cbVars, lkVars, faVars>>
    \/ (\E g \in Goroutines : DeleteLoad(g)) /\ UNCHANGED <<coordFrame, btVars, qVars, memVars, rcVars, walObjVars, ffVars, lwVars, cbVars, lkVars, faVars>>
    \/ (\E g \in Goroutines : DeleteMemTable(g)) /\ UNCHANGED <<coordFrame, btVars, qVars, memVars, rcVars, walObjVars, ffVars, lwVars, cbVars, lkVars, faVars>>
    \/ (\E g \in Goroutines : ForceCompactionLoad(g)) /\ UNCHANGED <<coordFrame, btVars, qVars, memVars, rcVars, walObjVars, ffVars, lwVars, cbVars, lkVars, faVars>>
    \/ (\E g \in Goroutines : ForceCompactionCompact(g)) /\ UNCHANGED <<coordFrame, btVars, qVars, memVars, rcVars, walObjVars, ffVars, lwVars, cbVars, lkVars, faVars>>
    \/ (\E g \in Goroutines : flushMemTableLock(g)) /\ UNCHANGED <<coordFrame, btVars, qVars, memVars, rcVars, walObjVars, ffVars, lwVars, cbVars, lkVars, faVars>>
    \/ (\E g \in Goroutines : flushMemTableBegin(g)) /\ UNCHANGED <<coordFrame, btVars, qVars, memVars, rcVars, walObjVars, ffVars, lwVars, cbVars, lkVars, faVars>>
    \/ (\E g \in Goroutines : flushMemTableSwap(g)) /\ UNCHANGED <<coordFrame, btVars, qVars, memVars, rcVars, walObjVars, ffVars, lwVars, cbVars, lkVars, faVars>>
    \/ (\E g \in Goroutines : flushMemTableStore(g)) /\ UNCHANGED <<coordFrame, btVars, qVars, memVars, rcVars, walObjVars, ffVars, lwVars, cbVars, lkVars, faVars>>
    \/ (\E g \in Goroutines : flushMemTableWalFlush(g)) /\ UNCHANGED <<coordFrame, btVars, qVars, memVars, rcVars, walObjVars, ffVars, lwVars, cbVars, lkVars, faVars>>
    \/ (\E g \in Goroutines : flushMemTableWalReset(g)) /\ UNCHANGED <<coordFrame, btVars, qVars, memVars, rcVars, walObjVars, ffVars, lwVars, cbVars, lkVars, faVars>>
    \/ WalWorkerReceive /\ UNCHANGED <<btVars, qVars, coordVars, memVars, rcVars, walObjVars, ffVars, lwVars, cbVars, lkVars, faVars>>
    \/ WalWorkerWrite /\ UNCHANGED <<btVars, qVars, coordVars, memVars, rcVars, walObjVars, ffVars, lwVars, cbVars, lkVars, faVars>>

SpecCoord == Init /\ [][CoordNext]_vars
\* the two memtables called through their methods by one caller
MemNext ==
    \/ (\E k \in Keys, v \in MtValues : MtInsert(k, v)) /\ UNCHANGED <<ldVars, lfVars, lsmVars, btVars, qVars, coordVars, rcVars, walObjVars, ffVars, lwVars, cbVars, lkVars, faVars>>
    \/ (\E k \in Keys : MtDelete(k)) /\ UNCHANGED <<ldVars, lfVars, lsmVars, btVars, qVars, coordVars, rcVars, walObjVars, ffVars, lwVars, cbVars, lkVars, faVars>>
    \/ MtSwap /\ UNCHANGED <<ldVars, lfVars, lsmVars, btVars, qVars, coordVars, rcVars, walObjVars, ffVars, lwVars, cbVars, lkVars, faVars>>
    \/ (\E t \in {"t1"}, k \in LfKeys, v \in Values : LfInsertCall(t, k, v)) /\ UNCHANGED <<ldVars, mtVars, lsmVars, btVars, qVars, coordVars, rcVars, walObjVars, ffVars, lwVars, cbVars, lkVars, faVars>>
    \/ (\E t \in {"t1"}, level \in LfLevels : LfInsertFind(t, level)) /\ UNCHANGED <<ldVars, mtVars, lsmVars, btVars, qVars, coordVars, rcVars, walObjVars, ffVars, lwVars, cbVars, lkVars, faVars>>
    \/ (\E t \in {"t1"} : LfInsertCas0(t)) /\ UNCHANGED <<ldVars, mtVars, lsmVars, btVars, qVars, coordVars, rcVars, walObjVars, ffVars, lwVars, cbVars, lkVars, faVars>>
    \/ (\E t \in {"t1"} : LfInsertLink(t)) /\ UNCHANGED <<ldVars, mtVars, lsmVars, btVars, qVars, coordVars, rcVars, walObjVars, ffVars, lwVars, cbVars, lkVars, faVars>>
    \/ (\E t \in {"t1"} : LfInsertCount(t)) /\ UNCHANGED <<ldVars, mtVars, lsmVars, btVars, qVars, coordVars, rcVars, walObjVars, ffVars, lwVars, cbVars, lkVars, faVars>>
    \/ (\E t \in {"t1"}, k \in LfKeys : LfDelete(t, k)) /\ UNCHANGED <<ldVars, mtVars, lsmVars, btVars, qVars, coordVars, rcVars, walObjVars, ffVars, lwVars, cbVars, lkVars, faVars>>
    \/ (\E t \in {"t1"} : LfSwapDump(t)) /\ UNCHANGED <<ldVars, mtVars, lsmVars, btVars, qVars, coordVars, rcVars, walObjVars, ffVars, lwVars, cbVars, lkVars, faVars>>
    \/ (\E t \in {"t1"} : LfSwapLength(t)) /\ UNCHANGED <<ldVars, mtVars, lsmVars, btVars, qVars, coordVars, rcVars, walObjVars, ffVars, lwVars, cbVars, lkVars, faVars>>
    \/ (\E t \in {"t1"} : LfSwapHead(t)) /\ UNCHANGED <<ldVars, mtVars, lsmVars, btVars, qVars, coordVars, rcVars, walObjVars, ffVars, lwVars, cbVars, lkVars, faVars>>

\* NewMemTable called with each of the sizes of MtCaps
InitMem ==
    /\ LsmInit /\ BtInit /\ QueueInit /\ CoordInit /\ MemInit /\ RcInit /\ WalObjInit
    /\ FfInit /\ LwInit /\ CacheSize = 1 /\ CbInit /\ LkInit /\ FaInit /\ Degree = MinDegree

SpecMem == InitMem /\ [][MemNext]_vars

\* the lfMemtable called by two threads at the same time: both insert, t1
\* deletes as well and t2 is the flusher that calls Swap
LfNext ==
    \/ (\E t \in LfThreads, k \in LfKeys : LfInsertCall(t, k, "v1")) /\ UNCHANGED <<ldVars, mtVars, lsmVars, btVars, qVars, coordVars, rcVars, walObjVars, ffVars, lwVars, cbVars, lkVars, faVars>>
    \/ (\E t \in LfThreads, level \in LfLevels : LfInsertFind(t, level)) /\ UNCHANGED <<ldVars, mtVars, lsmVars, btVars, qVars, coordVars, rcVars, walObjVars, ffVars, lwVars, cbVars, lkVars, faVars>>
    \/ (\E t \in LfThreads : LfInsertCas0(t)) /\ UNCHANGED <<ldVars, mtVars, lsmVars, btVars, qVars, coordVars, rcVars, walObjVars, ffVars, lwVars, cbVars, lkVars, faVars>>
    \/ (\E t \in LfThreads : LfInsertLink(t)) /\ UNCHANGED <<ldVars, mtVars, lsmVars, btVars, qVars, coordVars, rcVars, walObjVars, ffVars, lwVars, cbVars, lkVars, faVars>>
    \/ (\E t \in LfThreads : LfInsertCount(t)) /\ UNCHANGED <<ldVars, mtVars, lsmVars, btVars, qVars, coordVars, rcVars, walObjVars, ffVars, lwVars, cbVars, lkVars, faVars>>
    \/ (\E k \in LfKeys : LfDelete("t1", k)) /\ UNCHANGED <<ldVars, mtVars, lsmVars, btVars, qVars, coordVars, rcVars, walObjVars, ffVars, lwVars, cbVars, lkVars, faVars>>
    \/ LfSwapDump("t2") /\ UNCHANGED <<ldVars, mtVars, lsmVars, btVars, qVars, coordVars, rcVars, walObjVars, ffVars, lwVars, cbVars, lkVars, faVars>>
    \/ LfSwapLength("t2") /\ UNCHANGED <<ldVars, mtVars, lsmVars, btVars, qVars, coordVars, rcVars, walObjVars, ffVars, lwVars, cbVars, lkVars, faVars>>
    \/ LfSwapHead("t2") /\ UNCHANGED <<ldVars, mtVars, lsmVars, btVars, qVars, coordVars, rcVars, walObjVars, ffVars, lwVars, cbVars, lkVars, faVars>>

SpecLf == Init /\ [][LfNext]_vars

\* the WAL file written record by record, cut by a crash, and replayed
RecoverNext ==
    \/ (\E entry \in WalEntries : RcAppend(entry)) /\ UNCHANGED <<lsmVars, btVars, qVars, coordVars, memVars, walObjVars, ffVars, lwVars, cbVars, lkVars, faVars>>
    \/ (\E p \in 0..MaxCutLen : RcCutAt(p)) /\ UNCHANGED <<lsmVars, btVars, qVars, coordVars, memVars, walObjVars, ffVars, lwVars, cbVars, lkVars, faVars>>
    \/ RcRecover /\ UNCHANGED <<lsmVars, btVars, qVars, coordVars, memVars, walObjVars, ffVars, lwVars, cbVars, lkVars, faVars>>

SpecRecover == Init /\ [][RecoverNext]_vars

\* the WAL object used by two appending goroutines next to its worker
WalNext ==
    \/ (\E t \in WalAppenders : WalAppendCount(t)) /\ UNCHANGED <<btVars, qVars, coordVars, memVars, rcVars, ffVars, lwVars, cbVars, lkVars, faVars>>
    \/ (\E t \in WalAppenders : WalAppendSend(t)) /\ UNCHANGED <<btVars, qVars, coordVars, memVars, rcVars, ffVars, lwVars, cbVars, lkVars, faVars>>
    \/ WalWorkerReceive /\ UNCHANGED <<btVars, qVars, coordVars, memVars, rcVars, walObjVars, ffVars, lwVars, cbVars, lkVars, faVars>>
    \/ WalWorkerWrite /\ UNCHANGED <<btVars, qVars, coordVars, memVars, rcVars, walObjVars, ffVars, lwVars, cbVars, lkVars, faVars>>
    \/ WalResetCall /\ UNCHANGED <<btVars, qVars, coordVars, memVars, rcVars, ffVars, lwVars, cbVars, lkVars, faVars>>

SpecWal == Init /\ [][WalNext]_vars

\* the store with a file system that can fail while an SSTable is built
FlushFailNext ==
    \/ (\E k \in Keys, v \in Values, io \in IoOutcomes : FfInsert(k, v, io)) /\ UNCHANGED <<lsmVars, btVars, qVars, coordVars, memVars, rcVars, walObjVars, lwVars, cbVars, lkVars, faVars>>
    \/ (\E k \in Keys : FfDelete(k)) /\ UNCHANGED <<lsmVars, btVars, qVars, coordVars, memVars, rcVars, walObjVars, lwVars, cbVars, lkVars, faVars>>
    \/ (\E io \in IoOutcomes : FfClose(io)) /\ UNCHANGED <<lsmVars, btVars, qVars, coordVars, memVars, rcVars, walObjVars, lwVars, cbVars, lkVars, faVars>>
    \/ FfExit /\ UNCHANGED <<lsmVars, btVars, qVars, coordVars, memVars, rcVars, walObjVars, lwVars, cbVars, lkVars, faVars>>
    \/ FfOpen /\ UNCHANGED <<lsmVars, btVars, qVars, coordVars, memVars, rcVars, walObjVars, lwVars, cbVars, lkVars, faVars>>

SpecFlushFail == Init /\ [][FlushFailNext]_vars

\* NewBtree with each of the degrees
InitDegrees ==
    /\ LsmInit /\ BtInit /\ QueueInit /\ CoordInit /\ MemInit /\ RcInit /\ WalObjInit
    /\ FfInit /\ LwInit /\ CacheSize = 1 /\ CbInit /\ LkInit /\ FaInit /\ mtMaxSize = MemTableSize

\* a B-tree filled by Insert calls whose keys ascend
AscendingNext ==
    \/ (\E k \in AscKeys, v \in {"v1", "v2", BigValue} : (\A j \in AscKeys : btLast[j] # NoEntry => j < k) /\ BtInsert(k, v)) /\ UNCHANGED <<lsmVars, qVars, coordVars, memVars, rcVars, walObjVars, ffVars, lwVars, cbVars, lkVars, faVars>>

SpecAscending == InitDegrees /\ [][AscendingNext]_vars

\* the ring-buffer WAL under concurrent Append, Flush and Reset
LfwalNext ==
    \/ (\E t \in LwCallers : LwAppendCall(t)) /\ UNCHANGED <<lsmVars, btVars, qVars, coordVars, memVars, rcVars, walObjVars, ffVars, cbVars, lkVars, faVars>>
    \/ (\E t \in LwThreads : LwAppendLoadTail(t)) /\ UNCHANGED <<lsmVars, btVars, qVars, coordVars, memVars, rcVars, walObjVars, ffVars, cbVars, lkVars, faVars>>
    \/ (\E t \in LwThreads : LwAppendLoadHead(t)) /\ UNCHANGED <<lsmVars, btVars, qVars, coordVars, memVars, rcVars, walObjVars, ffVars, cbVars, lkVars, faVars>>
    \/ (\E t \in LwThreads : LwAppendCas(t)) /\ UNCHANGED <<lsmVars, btVars, qVars, coordVars, memVars, rcVars, walObjVars, ffVars, cbVars, lkVars, faVars>>
    \/ (\E t \in LwThreads : LwAppendStore(t)) /\ UNCHANGED <<lsmVars, btVars, qVars, coordVars, memVars, rcVars, walObjVars, ffVars, cbVars, lkVars, faVars>>
    \/ (\E t \in LwThreads : LwFlushCall(t, FALSE)) /\ UNCHANGED <<lsmVars, btVars, qVars, coordVars, memVars, rcVars, walObjVars, ffVars, cbVars, lkVars, faVars>>
    \/ (\E t \in LwCallers : LwFlushCall(t, TRUE)) /\ UNCHANGED <<lsmVars, btVars, qVars, coordVars, memVars, rcVars, walObjVars, ffVars, cbVars, lkVars, faVars>>
    \/ (\E t \in LwThreads : LwFlushLoadHead(t)) /\ UNCHANGED <<lsmVars, btVars, qVars, coordVars, memVars, rcVars, walObjVars, ffVars, cbVars, lkVars, faVars>>
    \/ (\E t \in LwThreads : LwFlushLoadTail(t)) /\ UNCHANGED <<lsmVars, btVars, qVars, coordVars, memVars, rcVars, walObjVars, ffVars, cbVars, lkVars, faVars>>
    \/ (\E t \in LwThreads : LwFlushRead(t)) /\ UNCHANGED <<lsmVars, btVars, qVars, coordVars, memVars, rcVars, walObjVars, ffVars, cbVars, lkVars, faVars>>
    \/ (\E t \in LwThreads : LwFlushWrite(t)) /\ UNCHANGED <<lsmVars, btVars, qVars, coordVars, memVars, rcVars, walObjVars, ffVars, cbVars, lkVars, faVars>>
    \/ (\E t \in LwThreads : LwFlushStoreHead(t)) /\ UNCHANGED <<lsmVars, btVars, qVars, coordVars, memVars, rcVars, walObjVars, ffVars, cbVars, lkVars, faVars>>
    \/ (\E t \in LwThreads : LwResetHead(t)) /\ UNCHANGED <<lsmVars, btVars, qVars, coordVars, memVars, rcVars, walObjVars, ffVars, cbVars, lkVars, faVars>>
    \/ (\E t \in LwThreads : LwResetTail(t)) /\ UNCHANGED <<lsmVars, btVars, qVars, coordVars, memVars, rcVars, walObjVars, ffVars, cbVars, lkVars, faVars>>

SpecLfwal == Init /\ [][LfwalNext]_vars

\* the ring-buffer WAL under concurrent Append and Flush only
LfwalFlushNext ==
    \/ (\E t \in LwCallers : LwAppendCall(t)) /\ UNCHANGED <<lsmVars, btVars, qVars, coordVars, memVars, rcVars, walObjVars, ffVars, cbVars, lkVars, faVars>>
    \/ (\E t \in LwThreads : LwAppendLoadTail(t)) /\ UNCHANGED <<lsmVars, btVars, qVars, coordVars, memVars, rcVars, walObjVars, ffVars, cbVars, lkVars, faVars>>
    \/ (\E t \in LwThreads : LwAppendLoadHead(t)) /\ UNCHANGED <<lsmVars, btVars, qVars, coordVars, memVars, rcVars, walObjVars, ffVars, cbVars, lkVars, faVars>>
    \/ (\E t \in LwThreads : LwAppendCas(t)) /\ UNCHANGED <<lsmVars, btVars, qVars, coordVars, memVars, rcVars, walObjVars, ffVars, cbVars, lkVars, faVars>>
    \/ (\E t \in LwThreads : LwAppendStore(t)) /\ UNCHANGED <<lsmVars, btVars, qVars, coordVars, memVars, rcVars, walObjVars, ffVars, cbVars, lkVars, faVars>>
    \/ (\E t \in LwThreads : LwFlushCall(t, FALSE)) /\ UNCHANGED <<lsmVars, btVars, qVars, coordVars, memVars, rcVars, walObjVars, ffVars, cbVars, lkVars, faVars>>
    \/ (\E t \in LwThreads : LwFlushLoadHead(t)) /\ UNCHANGED <<lsmVars, btVars, qVars, coordVars, memVars, rcVars, walObjVars, ffVars, cbVars, lkVars, faVars>>
    \/ (\E t \in LwThreads : LwFlushLoadTail(t)) /\ UNCHANGED <<lsmVars, btVars, qVars, coordVars, memVars, rcVars, walObjVars, ffVars, cbVars, lkVars, faVars>>
    \/ (\E t \in LwThreads : LwFlushRead(t)) /\ UNCHANGED <<lsmVars, btVars, qVars, coordVars, memVars, rcVars, walObjVars, ffVars, cbVars, lkVars, faVars>>
    \/ (\E t \in LwThreads : LwFlushWrite(t)) /\ UNCHANGED <<lsmVars, btVars, qVars, coordVars, memVars, rcVars, walObjVars, ffVars, cbVars, lkVars, faVars>>
    \/ (\E t \in LwThreads : LwFlushStoreHead(t)) /\ UNCHANGED <<lsmVars, btVars, qVars, coordVars, memVars, rcVars, walObjVars, ffVars, cbVars, lkVars, faVars>>

SpecLfwalFlush == Init /\ [][LfwalFlushNext]_vars

\* initial states of the two B-tree instances, the cached one with each cache size
InitCache ==
    /\ LsmInit /\ BtInit /\ QueueInit /\ CoordInit /\ MemInit /\ RcInit /\ WalObjInit
    /\ FfInit /\ LwInit /\ mtMaxSize = MemTableSize /\ Degree = MinDegree
    /\ CacheSize \in CacheSizes /\ CbInit /\ LkInit /\ FaInit

\* the same calls on the B-tree with the cache and on the one without
CacheNext ==
    \/ (\E k \in CbKeys : CbInsert(k, "v1")) /\ UNCHANGED <<lsmVars, btVars, qVars, coordVars, memVars, rcVars, walObjVars, ffVars, lwVars, lkVars, faVars>>
    \/ (\E k \in CbKeys : CbDelete(k)) /\ UNCHANGED <<lsmVars, btVars, qVars, coordVars, memVars, rcVars, walObjVars, ffVars, lwVars, lkVars, faVars>>
    \/ (\E k \in CbKeys : CbGet(k)) /\ UNCHANGED <<lsmVars, btVars, qVars, coordVars, memVars, rcVars, walObjVars, ffVars, lwVars, lkVars, faVars>>

SpecCache == InitCache /\ [][CacheNext]_vars

\* the same calls with a key of 65536 bytes among the keys
CacheLongNext ==
    \/ (\E k \in CbLongKeys : CbInsert(k, "v1")) /\ UNCHANGED <<lsmVars, btVars, qVars, coordVars, memVars, rcVars, walObjVars, ffVars, lwVars, lkVars, faVars>>
    \/ (\E k \in CbLongKeys : CbDelete(k)) /\ UNCHANGED <<lsmVars, btVars, qVars, coordVars, memVars, rcVars, walObjVars, ffVars, lwVars, lkVars, faVars>>
    \/ (\E k \in CbLongKeys : CbGet(k)) /\ UNCHANGED <<lsmVars, btVars, qVars, coordVars, memVars, rcVars, walObjVars, ffVars, lwVars, lkVars, faVars>>

SpecCacheLong == InitCache /\ [][CacheLongNext]_vars

\* the lfMemtable with Delete calls that race: both threads delete while t1
\* inserts as well
LfDeleteNext ==
    \/ (\E k \in LfKeys : LdInsertCall("t1", k, "v1")) /\ UNCHANGED <<mtVars, lsmVars, btVars, qVars, coordVars, rcVars, walObjVars, ffVars, lwVars, cbVars, lkVars, faVars>>
    \/ (\E t \in LfThreads, level \in LfLevels : LfInsertFind(t, level)) /\ UNCHANGED <<ldVars, mtVars, lsmVars, btVars, qVars, coordVars, rcVars, walObjVars, ffVars, lwVars, cbVars, lkVars, faVars>>
    \/ (\E t \in LfThreads : LfInsertCas0(t)) /\ UNCHANGED <<ldVars, mtVars, lsmVars, btVars, qVars, coordVars, rcVars, walObjVars, ffVars, lwVars, cbVars, lkVars, faVars>>
    \/ (\E t \in LfThreads : LfInsertLink(t)) /\ UNCHANGED <<ldVars, mtVars, lsmVars, btVars, qVars, coordVars, rcVars, walObjVars, ffVars, lwVars, cbVars, lkVars, faVars>>
    \/ (\E t \in LfThreads : LfInsertCount(t)) /\ UNCHANGED <<ldVars, mtVars, lsmVars, btVars, qVars, coordVars, rcVars, walObjVars, ffVars, lwVars, cbVars, lkVars, faVars>>
    \/ (\E t \in LfThreads, k \in LfKeys : LfDeleteFind(t, k)) /\ UNCHANGED <<mtVars, lsmVars, btVars, qVars, coordVars, rcVars, walObjVars, ffVars, lwVars, cbVars, lkVars, faVars>>
    \/ (\E t \in LfThreads : LfDeleteCas(t)) /\ UNCHANGED <<mtVars, lsmVars, btVars, qVars, coordVars, rcVars, walObjVars, ffVars, lwVars, cbVars, lkVars, faVars>>
    \/ (\E t \in LfThreads : LfDeleteCount(t)) /\ UNCHANGED <<mtVars, lsmVars, btVars, qVars, coordVars, rcVars, walObjVars, ffVars, lwVars, cbVars, lkVars, faVars>>

SpecLfDelete == Init /\ [][LfDeleteNext]_vars

\* the calls of LSMTree, Close, the compactor goroutine and the WAL worker at
\* the level of their locks
LkOpNames == {"insert", "delete", "get", "force"}

LkFlushers == LkCallers \cup {LkCloser}

LkCompacters == LkCallers \cup {LkCompactor}

LocksNext ==
    \/ (\E g \in LkCallers, op \in LkOpNames : LkCall(g, op)) /\ UNCHANGED <<lsmVars, btVars, qVars, coordVars, memVars, rcVars, walObjVars, ffVars, lwVars, cbVars, faVars>>
    \/ (\E g \in LkCallers : LkAppend(g)) /\ UNCHANGED <<lsmVars, btVars, qVars, coordVars, memVars, rcVars, walObjVars, ffVars, lwVars, cbVars, faVars>>
    \/ (\E g \in LkCallers : LkInsertLoad(g)) /\ UNCHANGED <<lsmVars, btVars, qVars, coordVars, memVars, rcVars, walObjVars, ffVars, lwVars, cbVars, faVars>>
    \/ (\E g \in LkCallers : LkInsertRLock(g)) /\ UNCHANGED <<lsmVars, btVars, qVars, coordVars, memVars, rcVars, walObjVars, ffVars, lwVars, cbVars, faVars>>
    \/ (\E g \in LkCallers : LkInsertMtLock(g)) /\ UNCHANGED <<lsmVars, btVars, qVars, coordVars, memVars, rcVars, walObjVars, ffVars, lwVars, cbVars, faVars>>
    \/ (\E g \in LkCallers : LkInsertStore(g)) /\ UNCHANGED <<lsmVars, btVars, qVars, coordVars, memVars, rcVars, walObjVars, ffVars, lwVars, cbVars, faVars>>
    \/ (\E g \in LkCallers : LkInsertRUnlock(g)) /\ UNCHANGED <<lsmVars, btVars, qVars, coordVars, memVars, rcVars, walObjVars, ffVars, lwVars, cbVars, faVars>>
    \/ (\E g \in LkCallers : LkDeleteStore(g)) /\ UNCHANGED <<lsmVars, btVars, qVars, coordVars, memVars, rcVars, walObjVars, ffVars, lwVars, cbVars, faVars>>
    \/ (\E g \in LkCallers, hit \in BOOLEAN : LkGetLoad(g, hit)) /\ UNCHANGED <<lsmVars, btVars, qVars, coordVars, memVars, rcVars, walObjVars, ffVars, lwVars, cbVars, faVars>>
    \/ (\E g \in LkCallers : LkGetRLock(g)) /\ UNCHANGED <<lsmVars, btVars, qVars, coordVars, memVars, rcVars, walObjVars, ffVars, lwVars, cbVars, faVars>>
    \/ (\E g \in LkCallers : LkGetRUnlock(g)) /\ UNCHANGED <<lsmVars, btVars, qVars, coordVars, memVars, rcVars, walObjVars, ffVars, lwVars, cbVars, faVars>>
    \/ (\E g \in LkCallers : LkForceLoad(g)) /\ UNCHANGED <<lsmVars, btVars, qVars, coordVars, memVars, rcVars, walObjVars, ffVars, lwVars, cbVars, faVars>>
    \/ (\E g \in LkCallers : LkForceSize(g)) /\ UNCHANGED <<lsmVars, btVars, qVars, coordVars, memVars, rcVars, walObjVars, ffVars, lwVars, cbVars, faVars>>
    \/ (\E p \in LkFlushers : LkFlushLock(p)) /\ UNCHANGED <<lsmVars, btVars, qVars, coordVars, memVars, rcVars, walObjVars, ffVars, lwVars, cbVars, faVars>>
    \/ (\E p \in LkFlushers : LkFlushMuLock(p)) /\ UNCHANGED <<lsmVars, btVars, qVars, coordVars, memVars, rcVars, walObjVars, ffVars, lwVars, cbVars, faVars>>
    \/ (\E p \in LkFlushers : LkFlushSizeLock(p)) /\ UNCHANGED <<lsmVars, btVars, qVars, coordVars, memVars, rcVars, walObjVars, ffVars, lwVars, cbVars, faVars>>
    \/ (\E p \in LkFlushers : LkFlushSize(p)) /\ UNCHANGED <<lsmVars, btVars, qVars, coordVars, memVars, rcVars, walObjVars, ffVars, lwVars, cbVars, faVars>>
    \/ (\E p \in LkFlushers : LkFlushSwapLock(p)) /\ UNCHANGED <<lsmVars, btVars, qVars, coordVars, memVars, rcVars, walObjVars, ffVars, lwVars, cbVars, faVars>>
    \/ (\E p \in LkFlushers : LkFlushSwap(p)) /\ UNCHANGED <<lsmVars, btVars, qVars, coordVars, memVars, rcVars, walObjVars, ffVars, lwVars, cbVars, faVars>>
    \/ (\E p \in LkFlushers : LkFlushStore(p)) /\ UNCHANGED <<lsmVars, btVars, qVars, coordVars, memVars, rcVars, walObjVars, ffVars, lwVars, cbVars, faVars>>
    \/ (\E p \in LkFlushers : LkFlushWalFlush(p)) /\ UNCHANGED <<lsmVars, btVars, qVars, coordVars, memVars, rcVars, walObjVars, ffVars, lwVars, cbVars, faVars>>
    \/ (\E p \in LkFlushers : LkFlushResetLock(p)) /\ UNCHANGED <<lsmVars, btVars, qVars, coordVars, memVars, rcVars, walObjVars, ffVars, lwVars, cbVars, faVars>>
    \/ (\E p \in LkFlushers : LkFlushReset(p)) /\ UNCHANGED <<lsmVars, btVars, qVars, coordVars, memVars, rcVars, walObjVars, ffVars, lwVars, cbVars, faVars>>
    \/ (\E p \in LkCompacters : LkCompactLock(p)) /\ UNCHANGED <<lsmVars, btVars, qVars, coordVars, memVars, rcVars, walObjVars, ffVars, lwVars, cbVars, faVars>>
    \/ (\E p \in LkCompacters : LkCompactMuLock(p)) /\ UNCHANGED <<lsmVars, btVars, qVars, coordVars, memVars, rcVars, walObjVars, ffVars, lwVars, cbVars, faVars>>
    \/ (\E p \in LkCompacters : LkCompactDone(p)) /\ UNCHANGED <<lsmVars, btVars, qVars, coordVars, memVars, rcVars, walObjVars, ffVars, lwVars, cbVars, faVars>>
    \/ LkCompactorTick /\ UNCHANGED <<lsmVars, btVars, qVars, coordVars, memVars, rcVars, walObjVars, ffVars, lwVars, cbVars, faVars>>
    \/ LkCompactorStop /\ UNCHANGED <<lsmVars, btVars, qVars, coordVars, memVars, rcVars, walObjVars, ffVars, lwVars, cbVars, faVars>>
    \/ LkCloseCall /\ UNCHANGED <<lsmVars, btVars, qVars, coordVars, memVars, rcVars, walObjVars, ffVars, lwVars, cbVars, faVars>>
    \/ LkCloseWait /\ UNCHANGED <<lsmVars, btVars, qVars, coordVars, memVars, rcVars, walObjVars, ffVars, lwVars, cbVars, faVars>>
    \/ LkWalClose /\ UNCHANGED <<lsmVars, btVars, qVars, coordVars, memVars, rcVars, walObjVars, ffVars, lwVars, cbVars, faVars>>
    \/ LkWalCloseWait /\ UNCHANGED <<lsmVars, btVars, qVars, coordVars, memVars, rcVars, walObjVars, ffVars, lwVars, cbVars, faVars>>
    \/ LkWalCloseLock /\ UNCHANGED <<lsmVars, btVars, qVars, coordVars, memVars, rcVars, walObjVars, ffVars, lwVars, cbVars, faVars>>
    \/ LkWalCloseFile /\ UNCHANGED <<lsmVars, btVars, qVars, coordVars, memVars, rcVars, walObjVars, ffVars, lwVars, cbVars, faVars>>
    \/ LkWorkerReceive /\ UNCHANGED <<lsmVars, btVars, qVars, coordVars, memVars, rcVars, walObjVars, ffVars, lwVars, cbVars, faVars>>
    \/ LkWorkerExit /\ UNCHANGED <<lsmVars, btVars, qVars, coordVars, memVars, rcVars, walObjVars, ffVars, lwVars, cbVars, faVars>>
    \/ LkWorkerLock /\ UNCHANGED <<lsmVars, btVars, qVars, coordVars, memVars, rcVars, walObjVars, ffVars, lwVars, cbVars, faVars>>
    \/ LkWorkerWrite /\ UNCHANGED <<lsmVars, btVars, qVars, coordVars, memVars, rcVars, walObjVars, ffVars, lwVars, cbVars, faVars>>

SpecLocks == Init /\ [][LocksNext]_vars

\* the Go scheduler runs every goroutine that can take a step: each goroutine's
\* steps are weakly fair; the invocation of a call and the ticker are not forced
SpecLocksFair ==
    /\ Init
    /\ [][LocksNext]_vars
    /\ \A p \in LkProcs : WF_vars(LkStep(p) /\ UNCHANGED <<lsmVars, btVars, qVars, coordVars, memVars, rcVars, walObjVars, ffVars, lwVars, cbVars, faVars>>)

\* the file adapter: the caller's Insert, Delete and Get, the index goroutines,
\* the WAL worker and the compaction worker
FileNext ==
    \/ (\E k \in Keys : FileInsert(k, "v1")) /\ UNCHANGED <<lsmVars, btVars, qVars, coordVars, memVars, rcVars, walObjVars, ffVars, lwVars, cbVars, lkVars>>
    \/ (\E j \in faPending : FileIndexStore(j)) /\ UNCHANGED <<lsmVars, btVars, qVars, coordVars, memVars, rcVars, walObjVars, ffVars, lwVars, cbVars, lkVars>>
    \/ (\E k \in Keys : FileDelete(k)) /\ UNCHANGED <<lsmVars, btVars, qVars, coordVars, memVars, rcVars, walObjVars, ffVars, lwVars, cbVars, lkVars>>
    \/ (\E k \in Keys : FileGet(k)) /\ UNCHANGED <<lsmVars, btVars, qVars, coordVars, memVars, rcVars, walObjVars, ffVars, lwVars, cbVars, lkVars>>
    \/ FileWalWorkerReceive /\ UNCHANGED <<lsmVars, btVars, qVars, coordVars, memVars, rcVars, walObjVars, ffVars, lwVars, cbVars, lkVars>>
    \/ FileWalWorkerFlush /\ UNCHANGED <<lsmVars, btVars, qVars, coordVars, memVars, rcVars, walObjVars, ffVars, lwVars, cbVars, lkVars>>
    \/ FileCompact /\ UNCHANGED <<lsmVars, btVars, qVars, coordVars, memVars, rcVars, walObjVars, ffVars, lwVars, cbVars, lkVars>>

SpecFile == Init /\ [][FileNext]_vars

====
